---- MODULE Spec2Model ----
(***************************************************************************)
(* Model of the process-mining pipeline (MiningEngine, src/unnamed/part_009)*)
(* and of the graph metrics of AnalysisEngine (src/src/modules/validator.js)*)
(* with its compliance checks, and of the recommendation pipeline of      *)
(* AIOptimizer (src/src/modules/ai-optimizer.js).                          *)
(*                                                                         *)
(* JavaScript strings are sequences of one-character strings, so that the  *)
(* relation key `${a} -> ${b}`, its split(' -> ') and the id sanitizer     *)
(* replace(/[^a-zA-Z0-9]/g, '_') are computed character by character.      *)
(* A JavaScript Set is a duplicate-free sequence in insertion order, a Map *)
(* a sequence of entries [k, v] with distinct keys in insertion order.     *)
(***************************************************************************)
EXTENDS Integers, Sequences, FiniteSets, TLC

VARIABLES pc, eventLog, traces, dfg, traceIdx, graph, result, error, analysis,
          strategy, candidates, recommendations, invoked,
          state, history, inflight, dispatched, stack, listening, clock, storage, runs, config, results, elements

vars == <<pc, eventLog, traces, dfg, traceIdx, graph, result, error, analysis,
          strategy, candidates, recommendations, invoked,
          state, history, inflight, dispatched, stack, listening, clock, storage, runs, config, results, elements>>

appVars == <<state, history, inflight, dispatched, stack, listening, clock, storage>>

engineVars == <<runs, config, results, elements>>

optimizerVars == <<strategy, candidates, recommendations, invoked>>

miningVars == <<eventLog, traces, dfg, traceIdx, result>>

(* ------------------------------ bounds -------------------------------- *)

MaxLogLen == 3

MaxCases == 2

MaxTime == 1

MaxTraceLen == 2

MaxNodes == 3

(* ------------------------------ strings ------------------------------- *)

Alnum ==
    { "a","b","c","d","e","f","g","h","i","j","k","l","m","n","o","p","q",
      "r","s","t","u","v","w","x","y","z",
      "A","B","C","D","E","F","G","H","I","J","K","L","M","N","O","P","Q",
      "R","S","T","U","V","W","X","Y","Z",
      "0","1","2","3","4","5","6","7","8","9" }

Arrow == <<" ", "-", ">", " ">>

TaskPrefix == <<"t", "a", "s", "k", "_">>

StartPrefix == <<"s", "t", "a", "r", "t", "_">>

EdgePrefix == <<"e", "d", "g", "e", "_">>

Underscore == <<"_">>

\* activity.replace(/[^a-zA-Z0-9]/g, '_')
Sanitize(s) == [i \in 1..Len(s) |-> IF s[i] \in Alnum THEN s[i] ELSE "_"]

\* `task_${activity.replace(...)}`
TaskId(activity) == TaskPrefix \o Sanitize(activity)

\* `start_${activity.replace(...)}`
StartId(activity) == StartPrefix \o Sanitize(activity)

\* `edge_${sourceId}_${targetId}`
EdgeId(sourceId, targetId) == EdgePrefix \o sourceId \o Underscore \o targetId

\* `${current} -> ${next}`
RelationKey(current, next) == current \o Arrow \o next

\* does sep occur in s at position i
OccursAt(s, sep, i) ==
    /\ i + Len(sep) - 1 <= Len(s)
    /\ \A j \in 1..Len(sep) : s[i + j - 1] = sep[j]

\* String.prototype.split(sep) for a non-empty separator: the pieces between
\* the non-overlapping occurrences of sep, found left to right
RECURSIVE Split(_, _)
Split(s, sep) ==
    LET hits == {i \in 1..Len(s) : OccursAt(s, sep, i)}
    IN  IF hits = {} THEN <<s>>
        ELSE LET i == CHOOSE h \in hits : \A g \in hits : h <= g
             IN  <<SubSeq(s, 1, i - 1)>> \o Split(SubSeq(s, i + Len(sep), Len(s)), sep)

(* --------------------------- Set and Map ------------------------------ *)

Range(s) == {s[i] : i \in 1..Len(s)}

\* Set.prototype.add
SetAdd(s, x) == IF x \in Range(s) THEN s ELSE Append(s, x)

MapKeys(m) == {m[i].k : i \in 1..Len(m)}

\* Map.prototype.has
MapHas(m, key) == key \in MapKeys(m)

\* Map.prototype.get of a key that is present
MapGet(m, key) == m[CHOOSE i \in 1..Len(m) : m[i].k = key].v

\* Map.prototype.set: an existing key keeps its position, a new one is appended
MapSet(m, key, val) ==
    IF MapHas(m, key)
    THEN [i \in 1..Len(m) |-> IF m[i].k = key THEN [k |-> key, v |-> val] ELSE m[i]]
    ELSE Append(m, [k |-> key, v |-> val])

(* ---------------------------- extractTraces --------------------------- *)

\* mutant of Compare: the operands of the subtraction swapped
CompareDescending(a, b) == b.timestamp - a.timestamp

\* new Date(timestamp) of a timestamp that does not parse: an Invalid Date,
\* whose number value is NaN
InvalidDate == -1

\* the comparator (a, b) => new Date(a.timestamp) - new Date(b.timestamp);
\* with an Invalid Date operand the difference is NaN, which sort takes as +0
Compare(a, b) ==
    IF a.timestamp = InvalidDate \/ b.timestamp = InvalidDate THEN 0
    ELSE a.timestamp - b.timestamp

\* position at which a stable sort places x in an already sorted prefix:
\* after every element that does not compare greater than x
RECURSIVE InsertStable(_, _)
InsertStable(sorted, x) ==
    IF sorted = <<>> THEN <<x>>
    ELSE IF Compare(sorted[Len(sorted)], x) <= 0 THEN Append(sorted, x)
    ELSE Append(InsertStable(SubSeq(sorted, 1, Len(sorted) - 1), x), sorted[Len(sorted)])

\* [...log].sort(comparator): Array.prototype.sort is stable
RECURSIVE SortLog(_)
SortLog(log) ==
    IF log = <<>> THEN <<>>
    ELSE InsertStable(SortLog(SubSeq(log, 1, Len(log) - 1)), log[Len(log)])

\* the forEach body of extractTraces, applied to one event
GroupEvent(m, event) ==
    LET m1 == IF ~MapHas(m, event.caseId) THEN MapSet(m, event.caseId, <<>>) ELSE m
    IN  MapSet(m1, event.caseId, Append(MapGet(m1, event.caseId), event.activity))

RECURSIVE GroupEvents(_, _)
GroupEvents(m, log) ==
    IF log = <<>> THEN m
    ELSE GroupEvents(GroupEvent(m, Head(log)), Tail(log))

extractTraces(log) == GroupEvents(<<>>, SortLog(log))

\* whether the comparator orders the events of the log consistently (equal
\* and less-than are transitive), as Array.prototype.sort requires
ConsistentComparator(log) ==
    \A i, j, k \in 1..Len(log) :
        /\ (Compare(log[i], log[j]) = 0 /\ Compare(log[j], log[k]) = 0)
               => Compare(log[i], log[k]) = 0
        /\ (Compare(log[i], log[j]) < 0 /\ Compare(log[j], log[k]) < 0)
               => Compare(log[i], log[k]) < 0

\* the arrays [...log].sort(comparator) may produce: the stable sort, or,
\* with a comparator that is not consistent, an implementation-defined order
SortOutcomes(log) ==
    IF ConsistentComparator(log) THEN {SortLog(log)}
    ELSE {[i \in 1..Len(log) |-> log[p[i]]] : p \in Permutations(1..Len(log))}

(* ------------------------------ buildDFG ------------------------------ *)

EmptyDFG == [nodes |-> <<>>, startNodes |-> <<>>, endNodes |-> <<>>, relations |-> <<>>]

\* mutant of NextCount: the stored count is not read back
NextCountReset(relations, relation) == 1

\* (dfg.relations.get(relation) || 0) + 1
NextCount(relations, relation) ==
    (IF MapHas(relations, relation) THEN MapGet(relations, relation) ELSE 0) + 1

\* mutant of FoldLoop: the loop stops before the last position, so the last
\* activity of a trace is never added to nodes
RECURSIVE FoldLoopShort(_, _, _)
FoldLoopShort(d, trace, i) ==
    IF i >= Len(trace) THEN d
    ELSE LET relation == RelationKey(trace[i], trace[i + 1])
             d1 == [d EXCEPT !.nodes = SetAdd(@, trace[i])]
             d2 == [d1 EXCEPT !.relations = MapSet(@, relation, NextCount(@, relation))]
         IN  FoldLoopShort(d2, trace, i + 1)

\* the for loop over the positions i of one trace (0-based in the source)
RECURSIVE FoldLoop(_, _, _)
FoldLoop(d, trace, i) ==
    IF i > Len(trace) THEN d
    ELSE LET d1 == [d EXCEPT !.nodes = SetAdd(@, trace[i])]
             relation == RelationKey(trace[i], trace[i + 1])
             d2 == IF i < Len(trace)
                   THEN [d1 EXCEPT !.relations = MapSet(@, relation, NextCount(@, relation))]
                   ELSE d1
         IN  FoldLoop(d2, trace, i + 1)

\* the forEach body of buildDFG, applied to one trace
FoldTraceInto(d, trace) ==
    IF Len(trace) = 0 THEN d
    ELSE FoldLoop([d EXCEPT !.startNodes = SetAdd(@, trace[1]),
                            !.endNodes = SetAdd(@, trace[Len(trace)])],
                  trace, 1)

(* -------------------------- createGraphFromDFG ------------------------ *)

TypeTask == <<"t", "a", "s", "k">>

TypeStartEvent == <<"s", "t", "a", "r", "t", "E", "v", "e", "n", "t">>

EmptyGraph == [nodes |-> <<>>, edges |-> <<>>, gateways |-> <<>>,
               startEvents |-> <<>>, endEvents |-> <<>>]

\* "Create Nodes": the forEach body over dfg.nodes
AddTaskNode(g, activity) ==
    [g EXCEPT !.nodes = MapSet(@, TaskId(activity),
        [id |-> TaskId(activity), name |-> activity, type |-> TypeTask,
         incoming |-> <<>>, outgoing |-> <<>>])]

\* mutant of AddStartEvent: the start event is not wired to its task
AddStartEventUnwired(g, activity) ==
    [g EXCEPT !.startEvents = Append(@, [id |-> StartId(activity), type |-> TypeStartEvent])]

\* "Add Start/End Events": the forEach body over dfg.startNodes
AddStartEvent(g, activity) ==
    LET startId == StartId(activity)
        targetId == TaskId(activity)
        edgeId == EdgeId(startId, targetId)
    IN  [g EXCEPT !.startEvents = Append(@, [id |-> startId, type |-> TypeStartEvent]),
                  !.edges = MapSet(@, edgeId,
                      [id |-> edgeId, source |-> startId, target |-> targetId])]

\* graph.nodes.get(id).outgoing.push(edgeId), guarded by graph.nodes.has(id)
PushOutgoing(nodes, id, edgeId) ==
    IF MapHas(nodes, id)
    THEN MapSet(nodes, id, [MapGet(nodes, id) EXCEPT !.outgoing = Append(@, edgeId)])
    ELSE nodes

PushIncoming(nodes, id, edgeId) ==
    IF MapHas(nodes, id)
    THEN MapSet(nodes, id, [MapGet(nodes, id) EXCEPT !.incoming = Append(@, edgeId)])
    ELSE nodes

\* const [source, target] = relation.split(' -> ')
RelationSource(relation) == Split(relation, Arrow)[1]

RelationTarget(relation) == Split(relation, Arrow)[2]

\* "Create Edges": the forEach body over dfg.relations
AddRelationEdge(g, count, relation) ==
    LET sourceId == TaskId(RelationSource(relation))
        targetId == TaskId(RelationTarget(relation))
        edgeId == EdgeId(sourceId, targetId)
        edges1 == MapSet(g.edges, edgeId,
                     [id |-> edgeId, source |-> sourceId, target |-> targetId,
                      weight |-> count])
        nodes1 == PushOutgoing(g.nodes, sourceId, edgeId)
        nodes2 == PushIncoming(nodes1, targetId, edgeId)
    IN  [g EXCEPT !.edges = edges1, !.nodes = nodes2]

RECURSIVE AddTaskNodes(_, _)
AddTaskNodes(g, acts) ==
    IF acts = <<>> THEN g ELSE AddTaskNodes(AddTaskNode(g, Head(acts)), Tail(acts))

RECURSIVE AddStartEvents(_, _)
AddStartEvents(g, acts) ==
    IF acts = <<>> THEN g ELSE AddStartEvents(AddStartEvent(g, Head(acts)), Tail(acts))

RECURSIVE AddRelationEdges(_, _)
AddRelationEdges(g, rels) ==
    IF rels = <<>> THEN g
    ELSE AddRelationEdges(AddRelationEdge(g, Head(rels).v, Head(rels).k), Tail(rels))

createGraphFromDFG(d) ==
    AddRelationEdges(AddStartEvents(AddTaskNodes(EmptyGraph, d.nodes), d.startNodes),
                     d.relations)

(* ----------------------------- countVariants -------------------------- *)

Semicolon == <<";">>

\* trace.join(';')
RECURSIVE Join(_)
Join(trace) ==
    IF trace = <<>> THEN <<>>
    ELSE IF Len(trace) = 1 THEN trace[1]
    ELSE trace[1] \o Semicolon \o Join(Tail(trace))

countVariants(m) == Cardinality({Join(m[i].v) : i \in 1..Len(m)})

(* ------------------------------- inputs ------------------------------- *)

NameA == <<"A">>

NameB == <<"B">>

NameArrow == <<"A", " ", "-", ">", " ", "A">>

NameImplies == <<"A", " ", "=", ">", " ", "A">>

\* activity names of the event logs
LogActivities == {NameA, NameB}

\* activity names of the trace mappings: a plain one, one that contains the
\* key separator, and one that differs from it in a non-alphanumeric character
Activities == {NameA, NameArrow, NameImplies}

CaseIds == 1..MaxCases

\* new Date(event.timestamp) of a parsable timestamp, as a number
Timestamps == 0..MaxTime

Events == [caseId : CaseIds, activity : LogActivities, timestamp : Timestamps]

SeqsUpTo(S, n) == UNION {[1..m -> S] : m \in 0..n}

\* the end-to-end scenario of the specification, section 8
ScenarioLog ==
    << [caseId |-> 1, activity |-> NameA, timestamp |-> 0],
       [caseId |-> 1, activity |-> NameB, timestamp |-> 1],
       [caseId |-> 2, activity |-> NameA, timestamp |-> 2],
       [caseId |-> 2, activity |-> NameB, timestamp |-> 3] >>

\* A value held by a JavaScript variable that the code spreads ([...v]):
\* an array, a string (its characters) or a plain object (not iterable).
ArrayOf(items) == [kind |-> "array", items |-> items]

StringOf(chars) == [kind |-> "string", items |-> chars]

ObjectOf(o) == [kind |-> "object", items |-> <<>>]

NoCandidates == [kind |-> "undefined", items |-> <<>>]

\* null
Null == [null |-> TRUE]

\* BPMNApp after its constructor: this.state, and no handler in flight
NoState == [currentProcess |-> Null, analysisResults |-> Null, visualization |-> Null]

IdleApp ==
    /\ state = NoState
    /\ history = <<>>
    /\ inflight = <<>>
    /\ dispatched = <<>>
    /\ stack = 0
    /\ listening = FALSE
    /\ clock = 0
    /\ storage = <<>>

\* this.config = { algorithm: 'alpha', threshold: 0.1 } (threshold in tenths)
EngineConfig == [algorithm |-> "alpha", threshold |-> 1]

\* the engines after their constructors: no discovery run, no analysis returned
IdleEngines ==
    /\ runs = <<>>
    /\ config = EngineConfig
    /\ results = <<>>
    /\ elements = <<>>

NoResult == [none |-> TRUE]

\* the analysis object of analyze before its fields are computed;
\* recommendations: [], kpis: {}
NoAnalysis ==
    [basic |-> NoResult, complexity |-> NoResult, performance |-> NoResult,
     compliance |-> NoResult, risks |-> NoResult, recommendations |-> <<>>,
     kpis |-> NoResult]

(* ------------------------------ discover ------------------------------ *)

\* the argument of discover() called without an event log: undefined, a
\* value that is not a sequence
NoEventLog == (0 :> 0)

\* mutant of IsEmptyLog: only a missing log is rejected
IsEmptyLogMissingOnly(log) == log = NoEventLog

\* !eventLog || eventLog.length === 0
IsEmptyLog(log) == IF log = NoEventLog THEN TRUE ELSE Len(log) = 0

Init ==
    /\ pc = "discover"
    /\ \/ \E n \in 0..MaxLogLen : eventLog \in [1..n -> Events]
       \/ eventLog = ScenarioLog
       \/ eventLog = NoEventLog
    /\ traces = <<>>
    /\ dfg = EmptyDFG
    /\ traceIdx = 1
    /\ graph = EmptyGraph
    /\ result = NoResult
    /\ error = ""
    /\ analysis = NoAnalysis
    /\ strategy = ""
    /\ candidates = NoCandidates
    /\ recommendations = <<>>
    /\ invoked = <<>>
    /\ IdleApp
    /\ IdleEngines

\* if (!eventLog || eventLog.length === 0) throw new Error(...)
DiscoverEmpty ==
    /\ pc = "discover"
    /\ IsEmptyLog(eventLog)
    /\ pc' = "thrown"
    /\ error' = "Kein Event Log vorhanden"
    /\ UNCHANGED <<eventLog, traces, dfg, traceIdx, graph, result, analysis, optimizerVars, appVars, engineVars>>

\* const traces = this.extractTraces(eventLog)
ExtractTraces ==
    /\ pc = "discover"
    /\ ~IsEmptyLog(eventLog)
    /\ \E sortedLog \in SortOutcomes(eventLog) : traces' = GroupEvents(<<>>, sortedLog)
    /\ pc' = "buildDFG"
    /\ UNCHANGED <<eventLog, dfg, traceIdx, graph, result, error, analysis, optimizerVars, appVars, engineVars>>

\* one iteration of traces.forEach in buildDFG
FoldTrace ==
    /\ pc = "buildDFG"
    /\ traceIdx <= Len(traces)
    /\ dfg' = FoldTraceInto(dfg, traces[traceIdx].v)
    /\ traceIdx' = traceIdx + 1
    /\ UNCHANGED <<pc, eventLog, traces, graph, result, error, analysis, optimizerVars, appVars, engineVars>>

\* return dfg; const graph = this.createGraphFromDFG(dfg)
CreateGraph ==
    /\ pc = "buildDFG"
    /\ traceIdx > Len(traces)
    /\ graph' = createGraphFromDFG(dfg)
    /\ pc' = "synthesized"
    /\ UNCHANGED <<eventLog, traces, dfg, traceIdx, result, error, analysis, optimizerVars, appVars, engineVars>>

\* return { graph, metadata: { caseCount, eventCount, variants, ... } }
Return ==
    /\ pc = "synthesized"
    /\ result' = [graph |-> graph,
                  metadata |-> [caseCount |-> Len(traces),
                                eventCount |-> Len(eventLog),
                                variants |-> countVariants(traces)]]
    /\ pc' = "done"
    /\ UNCHANGED <<eventLog, traces, dfg, traceIdx, graph, error, analysis, optimizerVars, appVars, engineVars>>

Next == DiscoverEmpty \/ ExtractTraces \/ FoldTrace \/ CreateGraph \/ Return

Spec == Init /\ [][Next]_vars

(* --------------------- discover called on a malformed log ------------- *)

\* events whose timestamp may be one that new Date cannot parse
MalformedEvents ==
    [caseId : CaseIds, activity : LogActivities, timestamp : Timestamps \cup {InvalidDate}]

InitMalformed ==
    /\ pc = "discover"
    /\ \E n \in 0..MaxLogLen : eventLog \in [1..n -> MalformedEvents]
    /\ traces = <<>>
    /\ dfg = EmptyDFG
    /\ traceIdx = 1
    /\ graph = EmptyGraph
    /\ result = NoResult
    /\ error = ""
    /\ analysis = NoAnalysis
    /\ strategy = ""
    /\ candidates = NoCandidates
    /\ recommendations = <<>>
    /\ invoked = <<>>
    /\ IdleApp
    /\ IdleEngines

SpecMalformed == InitMalformed /\ [][Next]_vars

(* --------------------- buildDFG called on a trace mapping ------------- *)

Traces == SeqsUpTo(Activities, MaxTraceLen)

TraceMap(t) == [i \in 1..Len(t) |-> [k |-> i, v |-> t[i]]]

\* a trace mapping with keys 1..n in insertion order
InitDFG ==
    /\ pc = "buildDFG"
    /\ eventLog = <<>>
    /\ \E n \in 0..MaxCases : \E t \in [1..n -> Traces] : traces = TraceMap(t)
    /\ dfg = EmptyDFG
    /\ traceIdx = 1
    /\ graph = EmptyGraph
    /\ result = NoResult
    /\ error = ""
    /\ analysis = NoAnalysis
    /\ strategy = ""
    /\ candidates = NoCandidates
    /\ recommendations = <<>>
    /\ invoked = <<>>
    /\ IdleApp
    /\ IdleEngines

NextDFG == FoldTrace \/ CreateGraph

SpecDFG == InitDFG /\ [][NextDFG]_vars

(* ------------------- AnalysisEngine: graph metrics -------------------- *)

\* String.prototype.includes
Includes(s, sub) == \E i \in 1..Len(s) : OccursAt(s, sub, i)

StrTask == <<"T", "a", "s", "k">>

StrParallel == <<"P", "a", "r", "a", "l", "l", "e", "l">>

MinutesPerTask == 30

AverageWait == 15

McCabeWeight == 5

DecisionWeight == 10

MaxScore == 100

BottleneckFanIn == 2

\* countConnectedComponents(_graph): return 1
countConnectedComponents(g) == 1

\* edgesCount - nodesCount + 2 * components
calculateMcCabeComplexity(g) ==
    Len(g.edges) - Len(g.nodes) + 2 * countConnectedComponents(g)

\* nodesCount * 1.5 + gateways * 2, kept as twice its value to stay integral
cognitiveWeightTimes2(g) == Len(g.nodes) * 3 + Len(g.gateways) * 4

countParallelPaths(g) ==
    Len(SelectSeq(g.gateways, LAMBDA n : Includes(n.type, StrParallel))) + 1

Min(a, b) == IF a <= b THEN a ELSE b

\* Math.min(100, mcCabe * 5 + decisionPoints * 10)
calculateComplexityScore(complexity) ==
    Min(MaxScore, complexity.mcCabe * McCabeWeight + complexity.decisionPoints * DecisionWeight)

analyzeComplexity(g) ==
    LET complexity == [mcCabe |-> calculateMcCabeComplexity(g),
                       cognitiveWeightTimes2 |-> cognitiveWeightTimes2(g),
                       nestingDepth |-> 1,
                       decisionPoints |-> Len(g.gateways),
                       parallelPaths |-> countParallelPaths(g),
                       roleHandovers |-> 0]
    IN  complexity @@ ("score" :> calculateComplexityScore(complexity))

MapValues(m) == [i \in 1..Len(m) |-> m[i].v]

\* nodeValues.filter(n => n.incoming?.length > 2).map(n => n.id)
identifyBottlenecks(g) ==
    LET hit == SelectSeq(MapValues(g.nodes), LAMBDA n : Len(n.incoming) > BottleneckFanIn)
    IN  [i \in 1..Len(hit) |-> hit[i].id]

\* tasks.length * 30
estimateProcessDuration(tasks) == Len(tasks) * MinutesPerTask

analyzePerformance(g) ==
    LET tasks == SelectSeq(MapValues(g.nodes), LAMBDA n : Includes(n.type, StrTask))
    IN  [estimatedDuration |-> estimateProcessDuration(tasks),
         bottlenecks |-> identifyBottlenecks(g),
         waitTimes |-> AverageWait,
         criticalPath |-> <<>>]

(* ---------------------- analysis of a process graph ------------------- *)

Digits == <<"1", "2", "3", "4", "5", "6", "7", "8", "9">>

TypeBpmnTask == <<"T", "a", "s", "k">>

TypeExclusiveGateway ==
    <<"E", "x", "c", "l", "u", "s", "i", "v", "e", "G", "a", "t", "e", "w", "a", "y">>

NodeIdOf(i) == <<"n", Digits[i]>>

FlowIdOf(i, j) == <<"f", Digits[i], Digits[j]>>

\* the pairs (i, j) of 1..n in lexicographic order
PairSeq(n) == [x \in 1..(n * n) |-> <<((x - 1) \div n) + 1, ((x - 1) % n) + 1>>]

\* a well-formed ProcessGraph with nodes n1..nn, of which the first gw are
\* gateways, and one sequence flow per pair of E
InputGraph(n, gw, E) ==
    LET flows == SelectSeq(PairSeq(n), LAMBDA p : p \in E)
        flowIds(sel) == [x \in 1..Len(sel) |-> FlowIdOf(sel[x][1], sel[x][2])]
        node(i) == [id |-> NodeIdOf(i), name |-> NodeIdOf(i),
                    type |-> IF i <= gw THEN TypeExclusiveGateway ELSE TypeBpmnTask,
                    incoming |-> flowIds(SelectSeq(flows, LAMBDA p : p[2] = i)),
                    outgoing |-> flowIds(SelectSeq(flows, LAMBDA p : p[1] = i))]
    IN  [nodes |-> [i \in 1..n |-> [k |-> NodeIdOf(i), v |-> node(i)]],
         edges |-> [x \in 1..Len(flows) |->
                      [k |-> FlowIdOf(flows[x][1], flows[x][2]),
                       v |-> [id |-> FlowIdOf(flows[x][1], flows[x][2]),
                              source |-> NodeIdOf(flows[x][1]),
                              target |-> NodeIdOf(flows[x][2])]]],
         gateways |-> [i \in 1..gw |-> node(i)],
         startEvents |-> <<>>,
         endEvents |-> <<>>]

InitMetrics ==
    /\ pc = "analyze"
    /\ eventLog = <<>>
    /\ traces = <<>>
    /\ dfg = EmptyDFG
    /\ traceIdx = 1
    /\ \E n \in 0..MaxNodes : \E gw \in 0..n : \E E \in SUBSET ((1..n) \X (1..n)) :
          graph = InputGraph(n, gw, E)
    /\ result = NoResult
    /\ error = ""
    /\ analysis = NoAnalysis
    /\ strategy = ""
    /\ candidates = NoCandidates
    /\ recommendations = <<>>
    /\ invoked = <<>>
    /\ IdleApp
    /\ IdleEngines

\* complexity: this.analyzeComplexity(processData)
AnalyzeComplexity ==
    /\ pc = "analyze"
    /\ analysis' = [analysis EXCEPT !.complexity = analyzeComplexity(graph)]
    /\ pc' = "complexity"
    /\ UNCHANGED <<eventLog, traces, dfg, traceIdx, graph, result, error, optimizerVars, appVars, engineVars>>

\* performance: this.analyzePerformance(processData)
AnalyzePerformance ==
    /\ pc = "complexity"
    /\ analysis' = [analysis EXCEPT !.performance = analyzePerformance(graph)]
    /\ pc' = "performance"
    /\ UNCHANGED <<eventLog, traces, dfg, traceIdx, graph, result, error, optimizerVars, appVars, engineVars>>

NextMetrics == AnalyzeComplexity \/ AnalyzePerformance

SpecMetrics == InitMetrics /\ [][NextMetrics]_vars

(* ---------------------------- AIOptimizer ------------------------------ *)
(* src/src/modules/ai-optimizer.js.  The numbers of a recommendation       *)
(* (impact, roi, effort, confidence) are counted in hundredths, the        *)
(* weights in tenths and the scores in thousandths, so that the arithmetic *)
(* of calculateRecommendationScore is exact decimal arithmetic.  A field   *)
(* holds a number or null; an absent field is a key that is not in the     *)
(* DOMAIN of the recommendation (recommendation[key] === undefined).       *)

MaxRecs == 2

Num(n) == [num |-> n]

\* ToNumber of the operand of recommendation[key] * weight: null is 0
ToNumber(v) == IF v = Null THEN 0 ELSE v.num

Has(obj, key) == key \in DOMAIN obj

ImpactWeight == 4

RoiWeight == 3

EffortWeight == -2

ConfidenceWeight == 1

\* const weights = { impact: 0.4, roi: 0.3, effort: -0.2, confidence: 0.1 }
weights ==
    << [k |-> "impact", v |-> ImpactWeight],
       [k |-> "roi", v |-> RoiWeight],
       [k |-> "effort", v |-> EffortWeight],
       [k |-> "confidence", v |-> ConfidenceWeight] >>

\* the score 1 of Math.min(1, score)
ScoreOne == 1000

\* score > 0.7
HighScore == 700

\* score > 0.4
MediumScore == 400

\* Object.entries(weights).forEach(([key, weight]) => { ... }) from entry i on
RECURSIVE AddWeights(_, _, _)
AddWeights(recommendation, score, i) ==
    IF i > Len(weights) THEN score
    ELSE AddWeights(recommendation,
                    IF Has(recommendation, weights[i].k)
                    THEN score + ToNumber(recommendation[weights[i].k]) * weights[i].v
                    ELSE score,
                    i + 1)

Max(a, b) == IF a > b THEN a ELSE b

\* mutant of calculateRecommendationScore: the sum is returned unclamped
calculateRecommendationScoreUnclamped(recommendation) ==
    AddWeights(recommendation, 0, 1)

\* return Math.max(0, Math.min(1, score))
calculateRecommendationScore(recommendation) ==
    Max(0, Min(ScoreOne, AddWeights(recommendation, 0, 1)))

\* estimateTimeline(effort) { return effort; }
estimateTimeline(effort) == effort

\* mutant of Priority: the comparisons are not strict
PriorityInclusive(score) ==
    IF score >= HighScore THEN "high"
    ELSE IF score >= MediumScore THEN "medium" ELSE "low"

\* score > 0.7 ? 'high' : score > 0.4 ? 'medium' : 'low'
Priority(score) ==
    IF score > HighScore THEN "high"
    ELSE IF score > MediumScore THEN "medium" ELSE "low"

\* the callback of recommendations.map: { ...rec, priority, score, timeline }.
\* timeline is estimateTimeline(rec.effort), undefined when rec has no effort
Prioritized(rec) ==
    LET score == calculateRecommendationScore(rec)
        rest == [key \in DOMAIN rec \ {"priority", "score", "timeline"} |-> rec[key]]
        derived == [priority |-> Priority(score), score |-> score]
    IN  IF Has(rec, "effort")
        THEN ([timeline |-> estimateTimeline(rec["effort"])] @@ derived) @@ rest
        ELSE derived @@ rest

\* mutant of CompareScore: the operands of the subtraction swapped
CompareScoreAscending(a, b) == a.score - b.score

\* the comparator (a, b) => b.score - a.score
CompareScore(a, b) == b.score - a.score

\* position at which the stable sort places x in an already sorted prefix
RECURSIVE InsertByScore(_, _)
InsertByScore(sorted, x) ==
    IF sorted = <<>> THEN <<x>>
    ELSE IF CompareScore(sorted[Len(sorted)], x) <= 0 THEN Append(sorted, x)
    ELSE Append(InsertByScore(SubSeq(sorted, 1, Len(sorted) - 1), x), sorted[Len(sorted)])

\* .sort((a, b) => b.score - a.score): Array.prototype.sort is stable
RECURSIVE SortByScore(_)
SortByScore(recs) ==
    IF recs = <<>> THEN <<>>
    ELSE InsertByScore(SortByScore(SubSeq(recs, 1, Len(recs) - 1)), recs[Len(recs)])

prioritizeRecommendations(recs) ==
    SortByScore([i \in 1..Len(recs) |-> Prioritized(recs[i])])

\* this.strategies: the own properties of the object literal, in order
strategies ==
    << [k |-> "cost-reduction", v |-> "optimizeForCost"],
       [k |-> "performance", v |-> "optimizeForPerformance"],
       [k |-> "compliance", v |-> "optimizeForCompliance"],
       [k |-> "simplicity", v |-> "optimizeForSimplicity"],
       [k |-> "auto", v |-> "optimizeAuto"] >>

\* properties that the object literal inherits from Object.prototype
ObjectPrototype ==
    << [k |-> "constructor", v |-> "Object"],
       [k |-> "toString", v |-> "Object.prototype.toString"] >>

\* this.strategies[strategy]: an own property, else an inherited one, else
\* undefined
Lookup(name) ==
    IF MapHas(strategies, name) THEN MapGet(strategies, name)
    ELSE IF MapHas(ObjectPrototype, name) THEN MapGet(ObjectPrototype, name)
    ELSE "undefined"

\* the outcome of a call: a returned value or a thrown error, with the
\* methods that were entered, in call order
Returned(value, calls) ==
    [threw |-> FALSE, error |-> "", value |-> value, calls |-> calls]

Threw(message, calls) ==
    [threw |-> TRUE, error |-> message, value |-> NoCandidates, calls |-> calls]

\* "[object Object]", the value of Object.prototype.toString.call(this)
ObjectTag ==
    <<"[", "o", "b", "j", "e", "c", "t", " ", "O", "b", "j", "e", "c", "t", "]">>

\* optimizeForPerformance: its first statement calls identifySlowPaths, which
\* throws
optimizeForPerformance(process) ==
    Threw("identifySlowPaths method not implemented",
          <<"optimizeForPerformance", "identifySlowPaths">>)

\* optimizeForCost: return recommendations (an empty array)
optimizeForCost(process) == Returned(ArrayOf(<<>>), <<"optimizeForCost">>)

optimizeForCompliance(process) ==
    Threw("optimizeForCompliance method not implemented", <<"optimizeForCompliance">>)

optimizeForSimplicity(process) ==
    Threw("optimizeForSimplicity method not implemented", <<"optimizeForSimplicity">>)

\* fn.call(this, process, analysis) for the functions other than optimizeAuto
CallStrategyFn(fn, process) ==
    CASE fn = "optimizeForCost" -> optimizeForCost(process)
      [] fn = "optimizeForPerformance" -> optimizeForPerformance(process)
      [] fn = "optimizeForCompliance" -> optimizeForCompliance(process)
      [] fn = "optimizeForSimplicity" -> optimizeForSimplicity(process)
      [] fn = "Object.prototype.toString" -> Returned(StringOf(ObjectTag), <<fn>>)
      [] fn = "Object" -> Returned(ObjectOf(process), <<fn>>)

\* const strategies = ['performance', 'cost-reduction', 'compliance']
AutoStrategies == <<"performance", "cost-reduction", "compliance">>

\* the for loop of optimizeAuto from strategy i on: a throwing strategy ends
\* the loop, a returning one has its recommendations pushed
RECURSIVE AutoLoop(_, _, _, _)
AutoLoop(process, allRecommendations, calls, i) ==
    IF i > Len(AutoStrategies) THEN Returned(ArrayOf(allRecommendations), calls)
    ELSE LET recs == CallStrategyFn(MapGet(strategies, AutoStrategies[i]), process)
         IN  IF recs.threw THEN Threw(recs.error, calls \o recs.calls)
             ELSE AutoLoop(process, allRecommendations \o recs.value.items,
                           calls \o recs.calls, i + 1)

optimizeAuto(process) == AutoLoop(process, <<>>, <<"optimizeAuto">>, 1)

\* optimizationFn.call(this, process, analysis)
Call(fn, process) ==
    IF fn = "optimizeAuto" THEN optimizeAuto(process) ELSE CallStrategyFn(fn, process)

\* the pattern recommendation that enhanceWithAI appends
AIRecommendation == [type |-> "ai-pattern", confidence |-> Num(85)]

\* an element of the spread [...recommendations]: an element of an array, a
\* character of a string (a primitive whose only own property is "0")
SpreadItems(v) ==
    IF v.kind = "string" THEN [i \in 1..Len(v.items) |-> ("0" :> v.items[i])] ELSE v.items

Iterable(v) == v.kind \in {"array", "string"}

\* return [...recommendations, ...aiRecommendations]
enhanceWithAI(v) == ArrayOf(SpreadItems(v) \o <<AIRecommendation>>)

(* input domain of the optimizer *)

StrategyNames ==
    {"cost-reduction", "performance", "compliance", "simplicity", "auto",
     "unknown", "toString", "constructor"}

Absent == [absent |-> TRUE]

Field(key, v) == IF v = Absent THEN <<>> ELSE (key :> v)

Candidate(i, r, e, c) ==
    [type |-> "candidate"] @@ Field("impact", i) @@ Field("roi", r)
        @@ Field("effort", e) @@ Field("confidence", c)

Candidates ==
    {Candidate(i, r, e, c) : i \in {Absent, Num(100), Num(300)},
                             r \in {Absent, Null, Num(100)},
                             e \in {Absent, Num(100), Num(300)},
                             c \in {Absent, Num(100)}}

\* {impact 0.9, roi 0.8, effort 0.1, confidence 1} after
\* {impact 0.2, roi 0.1, effort 0.9, confidence 0}
ScenarioCandidates ==
    << Candidate(Num(20), Num(10), Num(90), Num(0)),
       Candidate(Num(90), Num(80), Num(10), Num(100)) >>

InitOptimizer ==
    /\ eventLog = <<>>
    /\ traces = <<>>
    /\ dfg = EmptyDFG
    /\ traceIdx = 1
    /\ result = NoResult
    /\ error = ""
    /\ analysis = NoAnalysis
    /\ recommendations = <<>>
    /\ invoked = <<>>
    /\ IdleApp
    /\ IdleEngines
    /\ \/ /\ pc = "generateRecommendations"
          /\ strategy \in StrategyNames
          /\ \E n \in 0..MaxNodes : graph = InputGraph(n, 0, {})
          /\ candidates = NoCandidates
       \/ /\ pc = "prioritize"
          /\ strategy = ""
          /\ graph = EmptyGraph
          /\ \/ \E n \in 0..MaxRecs : \E c \in [1..n -> Candidates] :
                    candidates = ArrayOf(c)
             \/ candidates = ArrayOf(ScenarioCandidates)

\* if (!optimizationFn) throw new Error(`Strategy ${strategy} not supported`)
StrategyNotSupported ==
    /\ pc = "generateRecommendations"
    /\ Lookup(strategy) = "undefined"
    /\ pc' = "rejected"
    /\ error' = "Strategy " \o strategy \o " not supported"
    /\ UNCHANGED <<miningVars, graph, analysis, optimizerVars, appVars, engineVars>>

\* const baseRecommendations = await optimizationFn.call(this, process, analysis)
CallStrategy ==
    /\ pc = "generateRecommendations"
    /\ Lookup(strategy) # "undefined"
    /\ LET outcome == Call(Lookup(strategy), graph)
       IN  /\ invoked' = invoked \o outcome.calls
           /\ candidates' = outcome.value
           /\ error' = outcome.error
           /\ pc' = IF outcome.threw THEN "rejected" ELSE "enhance"
    /\ UNCHANGED <<miningVars, graph, analysis, strategy, recommendations, appVars, engineVars>>

\* const enhanced = await this.enhanceWithAI(baseRecommendations): spreading a
\* value that is not iterable throws a TypeError
EnhanceWithAI ==
    /\ pc = "enhance"
    /\ invoked' = Append(invoked, "enhanceWithAI")
    /\ IF Iterable(candidates)
       THEN /\ candidates' = enhanceWithAI(candidates)
            /\ pc' = "prioritize"
            /\ UNCHANGED error
       ELSE /\ pc' = "rejected"
            /\ error' = "TypeError: recommendations is not iterable"
            /\ UNCHANGED candidates
    /\ UNCHANGED <<miningVars, graph, analysis, strategy, recommendations, appVars, engineVars>>

\* return this.prioritizeRecommendations(enhanced)
PrioritizeRecommendations ==
    /\ pc = "prioritize"
    /\ invoked' = Append(invoked, "prioritizeRecommendations")
    /\ recommendations' = prioritizeRecommendations(candidates.items)
    /\ pc' = "returned"
    /\ UNCHANGED <<miningVars, graph, analysis, error, strategy, candidates, appVars, engineVars>>

NextOptimizer ==
    StrategyNotSupported \/ CallStrategy \/ EnhanceWithAI \/ PrioritizeRecommendations

SpecOptimizer == InitOptimizer /\ [][NextOptimizer]_vars

(* ---------------------------- compliance ------------------------------ *)
(* AnalysisEngine.analyzeCompliance and its four checks (validator.js)     *)

MaxElements == 4

UpperCase ==
    <<"A", "B", "C", "D", "E", "F", "G", "H", "I", "J", "K", "L", "M",
      "N", "O", "P", "Q", "R", "S", "T", "U", "V", "W", "X", "Y", "Z">>

LowerCase ==
    <<"a", "b", "c", "d", "e", "f", "g", "h", "i", "j", "k", "l", "m",
      "n", "o", "p", "q", "r", "s", "t", "u", "v", "w", "x", "y", "z">>

\* the case folding of the flag i of a regular expression, on one character
FoldCase(c) ==
    IF \E i \in 1..Len(UpperCase) : UpperCase[i] = c
    THEN LowerCase[CHOOSE i \in 1..Len(UpperCase) : UpperCase[i] = c]
    ELSE c

\* the alternatives of /daten|date|user|kunde|person/i
SensitiveKeywords ==
    << <<"d", "a", "t", "e", "n">>, <<"d", "a", "t", "e">>, <<"u", "s", "e", "r">>,
       <<"k", "u", "n", "d", "e">>, <<"p", "e", "r", "s", "o", "n">> >>

\* mutant of TestSensitive: the match is case-sensitive
TestSensitiveExact(name) ==
    \E k \in 1..Len(SensitiveKeywords) : Includes(name, SensitiveKeywords[k])

\* /daten|date|user|kunde|person/i.test(name)
TestSensitive(name) ==
    \E k \in 1..Len(SensitiveKeywords) :
        Includes([i \in 1..Len(name) |-> FoldCase(name[i])], SensitiveKeywords[k])

CriterionScore == 25

IsoPassScore == 80

MinTasks == 2

GdprMentionScore == 75

GdprScore == 100

SoxControlScore == 100

SoxScore == 50

AccessibilityScore == 95

\* nodeValues.filter(n => n.type && n.type.includes('Task'))
TaskNodesOf(g) ==
    SelectSeq(MapValues(g.nodes), LAMBDA n : Len(n.type) > 0 /\ Includes(n.type, StrTask))

\* mutant of IsoPassed: three of the four criteria are enough
IsoPassedLenient(score) == score >= 3 * CriterionScore

\* passed: score >= 80
IsoPassed(score) == score >= IsoPassScore

checkISO9001(g) ==
    LET hasStart == Len(g.startEvents) > 0
        hasEnd == Len(g.endEvents) > 0
        hasMinTasks == Len(TaskNodesOf(g)) >= MinTasks
        allNamed == \A i \in 1..Len(TaskNodesOf(g)) :
                        /\ Len(TaskNodesOf(g)[i].name) > 0
                        /\ TaskNodesOf(g)[i].name # TaskNodesOf(g)[i].id
        score == (IF hasStart THEN CriterionScore ELSE 0)
                   + (IF hasEnd THEN CriterionScore ELSE 0)
                   + (IF hasMinTasks THEN CriterionScore ELSE 0)
                   + (IF allNamed THEN CriterionScore ELSE 0)
    IN  [name |-> "ISO 9001:2015",
         passed |-> IsoPassed(score),
         score |-> score,
         details |-> << [name |-> "Start-Ereignis vorhanden", passed |-> hasStart],
                        [name |-> "End-Ereignis vorhanden", passed |-> hasEnd],
                        [name |-> "Minimale Prozess-Tiefe", passed |-> hasMinTasks],
                        [name |-> "Konsistente Benennung", passed |-> allNamed] >>]

checkGDPR(g) ==
    LET nodeValues == MapValues(g.nodes)
        sensitiveDataMentioned ==
            \E i \in 1..Len(nodeValues) :
                Len(nodeValues[i].name) > 0 /\ TestSensitive(nodeValues[i].name)
    IN  [name |-> "GDPR / DS-GVO",
         passed |-> (~sensitiveDataMentioned) \/ TRUE,
         score |-> IF sensitiveDataMentioned THEN GdprMentionScore ELSE GdprScore]

checkSOX(g) ==
    LET hasControl == Len(g.gateways) > 0
    IN  [name |-> "SOX Compliance",
         passed |-> hasControl,
         score |-> IF hasControl THEN SoxControlScore ELSE SoxScore]

checkAccessibility(g) ==
    [name |-> "Barrierefreiheit (WCAG)", passed |-> TRUE, score |-> AccessibilityScore]

\* checks.reduce((acc, c) => acc + c.score, 0)
RECURSIVE SumScores(_)
SumScores(cs) == IF cs = <<>> THEN 0 ELSE Head(cs).score + SumScores(Tail(cs))

\* mutant of calculateComplianceScore: the mean is rounded up
calculateComplianceScoreCeil(cs) == (SumScores(cs) + Len(cs) - 1) \div Len(cs)

\* Math.floor(sum / checks.length)
calculateComplianceScore(cs) == SumScores(cs) \div Len(cs)

\* the checks array is built once (const checks = [...]) and then read
analyzeCompliance(g) ==
    LET Summary(cs) ==
            [standards |-> cs,
             overallScore |-> calculateComplianceScore(cs),
             failedChecks |-> Len(SelectSeq(cs, LAMBDA c : ~c.passed)),
             recommendations |-> <<>>]
    IN  CHOOSE r \in {Summary(checks) : checks \in
                         {<<checkISO9001(g), checkGDPR(g), checkSOX(g),
                            checkAccessibility(g)>>}} : TRUE

(* input domain: graphs as BPMNParser.buildProcessGraph builds them *)

TypeBpmnStartEvent == <<"S", "t", "a", "r", "t", "E", "v", "e", "n", "t">>

TypeBpmnEndEvent == <<"E", "n", "d", "E", "v", "e", "n", "t">>

TypeUserTask == <<"U", "s", "e", "r", "T", "a", "s", "k">>

StrGateway == <<"G", "a", "t", "e", "w", "a", "y">>

NameUser == <<"U", "s", "e", "r">>

\* an element and its name attribute (<<>>: none): start and end events
\* without name, tasks without name or named "A" or "User", gateways
\* without name or named "User"
Elements ==
    [type : {TypeBpmnStartEvent, TypeBpmnEndEvent}, name : {<<>>}]
        \cup [type : {TypeUserTask}, name : {<<>>, NameA, NameUser}]
        \cup [type : {TypeExclusiveGateway}, name : {<<>>, NameUser}]

\* buildProcessGraph on elements e[1..n] with ids n1..nn and no sequence flow
ParsedGraph(e) ==
    LET node(i) == [id |-> NodeIdOf(i),
                    name |-> IF Len(e[i].name) > 0 THEN e[i].name ELSE NodeIdOf(i),
                    type |-> e[i].type,
                    incoming |-> <<>>,
                    outgoing |-> <<>>]
        nodes == [i \in 1..Len(e) |-> node(i)]
    IN  [nodes |-> [i \in 1..Len(e) |-> [k |-> NodeIdOf(i), v |-> node(i)]],
         edges |-> <<>>,
         gateways |-> SelectSeq(nodes, LAMBDA n : Includes(n.type, StrGateway)),
         startEvents |-> SelectSeq(nodes, LAMBDA n : Includes(n.type, TypeBpmnStartEvent)),
         endEvents |-> SelectSeq(nodes, LAMBDA n : Includes(n.type, TypeBpmnEndEvent))]

InitCompliance ==
    /\ pc = "analyze"
    /\ eventLog = <<>>
    /\ traces = <<>>
    /\ dfg = EmptyDFG
    /\ traceIdx = 1
    /\ \E n \in 0..MaxElements : \E e \in [1..n -> Elements] : graph = ParsedGraph(e)
    /\ result = NoResult
    /\ error = ""
    /\ analysis = NoAnalysis
    /\ strategy = ""
    /\ candidates = NoCandidates
    /\ recommendations = <<>>
    /\ invoked = <<>>
    /\ IdleApp
    /\ IdleEngines

\* compliance: this.analyzeCompliance(processData)
AnalyzeCompliance ==
    /\ pc = "performance"
    /\ analysis' = [analysis EXCEPT !.compliance = analyzeCompliance(graph)]
    /\ pc' = "compliance"
    /\ UNCHANGED <<miningVars, graph, error, optimizerVars, appVars, engineVars>>

NextCompliance == AnalyzeComplexity \/ AnalyzePerformance \/ AnalyzeCompliance

SpecCompliance == InitCompliance /\ [][NextCompliance]_vars

(* ------------------------ AnalysisEngine.analyze ------------------------ *)

MaxFlowNodes == 3

MaxAnalyzeCalls == 2

TypeSequenceFlow ==
    <<"S", "e", "q", "u", "e", "n", "c", "e", "F", "l", "o", "w">>

RiskScore == 20

EfficiencyKPI == 82

QualityKPI == 91

AgilityKPI == 74

CostKPI == 1500

McCabeLimit == 10

\* Array.from(m.values()) of a Map, Object.values(o) of a plain object
ValuesOf(m) == [i \in 1..Len(m) |-> m[i].v]

\* n.lane of a node: null for a parsed node outside every lane, undefined for
\* a mined node; both are dropped by filter(Boolean)
LaneOf(n) == IF "lane" \in DOMAIN n THEN n.lane ELSE <<>>

\* e => ({ id: e.id, name: e.name }); the name of a mined start event is
\* undefined
EventSummary(e) ==
    IF "name" \in DOMAIN e THEN [id |-> e.id, name |-> e.name] ELSE [id |-> e.id]

\* mutant of analyzeBasic: the elements are not counted
analyzeBasicNoCount(elems, g) ==
    [elementCount |-> 0,
     taskCount |-> Len(SelectSeq(ValuesOf(elems), LAMBDA e : Includes(e.type, StrTask))),
     gatewayCount |-> Len(g.gateways),
     eventCount |-> Len(g.startEvents) + Len(g.endEvents),
     laneCount |-> Cardinality({LaneOf(n) : n \in Range(ValuesOf(g.nodes))} \ {<<>>}),
     startEvents |-> [i \in 1..Len(g.startEvents) |-> EventSummary(g.startEvents[i])],
     endEvents |-> [i \in 1..Len(g.endEvents) |-> EventSummary(g.endEvents[i])]]

\* analyzeBasic(process), with elems = process.elements and g = process.graph
analyzeBasic(elems, g) ==
    [elementCount |-> Len(ValuesOf(elems)),
     taskCount |-> Len(SelectSeq(ValuesOf(elems), LAMBDA e : Includes(e.type, StrTask))),
     gatewayCount |-> Len(g.gateways),
     eventCount |-> Len(g.startEvents) + Len(g.endEvents),
     laneCount |-> Cardinality({LaneOf(n) : n \in Range(ValuesOf(g.nodes))} \ {<<>>}),
     startEvents |-> [i \in 1..Len(g.startEvents) |-> EventSummary(g.startEvents[i])],
     endEvents |-> [i \in 1..Len(g.endEvents) |-> EventSummary(g.endEvents[i])]]

analyzeRisks(g) ==
    [singlePointsOfFailure |-> <<>>,
     complianceRisks |-> <<>>,
     securityRisks |-> <<>>,
     operationalRisks |-> <<>>,
     riskScore |-> RiskScore]

hasBottleneck(g) == Len(identifyBottlenecks(g)) > 0

\* this.rules, as initializeRules returns them (impact and effort in tenths)
rules ==
    << [id |-> "RULE-001", type |-> "complexity", severity |-> "high",
        title |-> "High cyclomatic complexity",
        description |-> "The process has too many decision points",
        action |-> "Split process into sub-processes", impact |-> 8, effort |-> 6],
       [id |-> "RULE-002", type |-> "performance", severity |-> "medium",
        title |-> "Possible bottleneck identified",
        description |-> "A task has too many incoming connections",
        action |-> "Check parallel processing", impact |-> 6, effort |-> 4] >>

\* rule.check(process, analysis)
RuleCheck(rule, g) ==
    IF rule.id = "RULE-001" THEN calculateMcCabeComplexity(g) > McCabeLimit
    ELSE hasBottleneck(g)

\* the object pushed for a rule whose check holds; no rule has a calculateROI
RuleRecommendation(rule) ==
    [type |-> rule.type, severity |-> rule.severity, title |-> rule.title,
     description |-> rule.description, action |-> rule.action,
     impact |-> rule.impact, effort |-> rule.effort, roi |-> Null]

\* the comparator (a, b) => (b.roi || 0) - (a.roi || 0)
CompareRoi(a, b) == ToNumber(b.roi) - ToNumber(a.roi)

RECURSIVE InsertByRoi(_, _)
InsertByRoi(sorted, x) ==
    IF sorted = <<>> THEN <<x>>
    ELSE IF CompareRoi(sorted[Len(sorted)], x) <= 0 THEN Append(sorted, x)
    ELSE Append(InsertByRoi(SubSeq(sorted, 1, Len(sorted) - 1), x), sorted[Len(sorted)])

RECURSIVE SortByRoi(_)
SortByRoi(recs) ==
    IF recs = <<>> THEN <<>>
    ELSE InsertByRoi(SortByRoi(SubSeq(recs, 1, Len(recs) - 1)), recs[Len(recs)])

\* generateRecommendations(process, analysis) of AnalysisEngine
generateRuleRecommendations(g) ==
    LET hit == SelectSeq(rules, LAMBDA rule : RuleCheck(rule, g))
    IN  SortByRoi([i \in 1..Len(hit) |-> RuleRecommendation(hit[i])])

calculateKPIs(a) ==
    [efficiency |-> EfficiencyKPI,
     quality |-> QualityKPI,
     agility |-> AgilityKPI,
     compliance |-> a.compliance.overallScore,
     cost |-> CostKPI,
     time |-> a.performance.estimatedDuration]

\* mutant of PushResult: the engine hands out one analysis object again and
\* again, so every result returned earlier shows the latest analysis
PushResultShared(rs, a) == [i \in 1..(Len(rs) + 1) |-> a]

\* return analysis: the results that callers hold, in call order
PushResult(rs, a) == Append(rs, a)

(* input domain: processes as parseBPMN and handleLogUpload build them *)

\* flow nodes of a parsed process: an unnamed start event, a user task named
\* "A", an unnamed exclusive gateway
FlowNodeKinds ==
    { [type |-> TypeBpmnStartEvent, name |-> <<>>],
      [type |-> TypeUserTask, name |-> NameA],
      [type |-> TypeExclusiveGateway, name |-> <<>>] }

\* sequence flows of a process with flow nodes 1..n: from each of the first
\* m nodes into the last node
FlowSets(n) == {{<<i, n>> : i \in 1..m} : m \in 0..n}

\* the element map of traverseElements: flow nodes n1..nn, then one
\* bpmn:SequenceFlow element per pair of E
ElementList(kinds, E) ==
    LET n == Len(kinds)
        flows == SelectSeq(PairSeq(n), LAMBDA p : p \in E)
        flowIds(sel) == [x \in 1..Len(sel) |-> FlowIdOf(sel[x][1], sel[x][2])]
    IN  [i \in 1..n |->
            [id |-> NodeIdOf(i), type |-> kinds[i].type, name |-> kinds[i].name,
             incoming |-> flowIds(SelectSeq(flows, LAMBDA p : p[2] = i)),
             outgoing |-> flowIds(SelectSeq(flows, LAMBDA p : p[1] = i)),
             sourceRef |-> <<>>, targetRef |-> <<>>]]
        \o [x \in 1..Len(flows) |->
            [id |-> FlowIdOf(flows[x][1], flows[x][2]), type |-> TypeSequenceFlow,
             name |-> <<>>, incoming |-> <<>>, outgoing |-> <<>>,
             sourceRef |-> NodeIdOf(flows[x][1]), targetRef |-> NodeIdOf(flows[x][2])]]

\* element.name || element.id
NameOrId(element) == IF Len(element.name) > 0 THEN element.name ELSE element.id

\* buildProcessGraph(elements): a node for every element, an edge for every
\* bpmn:SequenceFlow element
buildProcessGraph(elementList) ==
    LET node(i) == [id |-> elementList[i].id,
                    type |-> elementList[i].type,
                    name |-> NameOrId(elementList[i]),
                    incoming |-> elementList[i].incoming,
                    outgoing |-> elementList[i].outgoing,
                    lane |-> <<>>]
        nodes == [i \in 1..Len(elementList) |-> node(i)]
        flows == SelectSeq(elementList, LAMBDA e : e.type = TypeSequenceFlow)
    IN  [nodes |-> [i \in 1..Len(nodes) |-> [k |-> nodes[i].id, v |-> nodes[i]]],
         edges |-> [x \in 1..Len(flows) |->
                      [k |-> flows[x].id,
                       v |-> [id |-> flows[x].id, source |-> flows[x].sourceRef,
                              target |-> flows[x].targetRef]]],
         gateways |-> SelectSeq(nodes, LAMBDA n : Includes(n.type, StrGateway)),
         startEvents |-> SelectSeq(nodes, LAMBDA n : Includes(n.type, TypeBpmnStartEvent)),
         endEvents |-> SelectSeq(nodes, LAMBDA n : Includes(n.type, TypeBpmnEndEvent))]

\* extractElements(elements): an entry for every element that has a $type
extractElements(elementList) ==
    [i \in 1..Len(elementList) |->
        [k |-> elementList[i].id,
         v |-> [id |-> elementList[i].id, type |-> elementList[i].type,
                name |-> NameOrId(elementList[i])]]]

RECURSIVE FoldTraces(_, _, _)
FoldTraces(d, ts, i) ==
    IF i > Len(ts) THEN d ELSE FoldTraces(FoldTraceInto(d, ts[i].v), ts, i + 1)

\* miningResult.graph of discover(log)
MinedGraph(log) == createGraphFromDFG(FoldTraces(EmptyDFG, extractTraces(log), 1))

\* logs of MiningEngine.discover: events in timestamp order
OrderedLog(cs, as) ==
    [i \in 1..Len(cs) |-> [caseId |-> cs[i], activity |-> as[i], timestamp |-> i]]

InitAnalyze ==
    /\ pc = "basic"
    /\ \/ \E n \in 0..MaxFlowNodes : \E kinds \in [1..n -> FlowNodeKinds] :
             \E E \in FlowSets(n) :
                /\ eventLog = <<>>
                /\ graph = buildProcessGraph(ElementList(kinds, E))
                /\ elements = extractElements(ElementList(kinds, E))
       \/ \E n \in 1..MaxTraceLen : \E cs \in [1..n -> CaseIds] :
             \E as \in [1..n -> LogActivities] :
                /\ eventLog = OrderedLog(cs, as)
                /\ graph = MinedGraph(eventLog)
                /\ elements = graph.nodes
    /\ traces = <<>>
    /\ dfg = EmptyDFG
    /\ traceIdx = 1
    /\ result = NoResult
    /\ error = ""
    /\ analysis = NoAnalysis
    /\ strategy = ""
    /\ candidates = NoCandidates
    /\ recommendations = <<>>
    /\ invoked = <<>>
    /\ IdleApp
    /\ runs = <<>>
    /\ config = EngineConfig
    /\ results = <<>>

\* basic: this.analyzeBasic(processData)
AnalyzeBasic ==
    /\ pc = "basic"
    /\ analysis' = [analysis EXCEPT !.basic = analyzeBasic(elements, graph)]
    /\ pc' = "analyze"
    /\ UNCHANGED <<miningVars, graph, error, optimizerVars, appVars, engineVars>>

\* risks: this.analyzeRisks(processData)
AnalyzeRisks ==
    /\ pc = "compliance"
    /\ analysis' = [analysis EXCEPT !.risks = analyzeRisks(graph)]
    /\ pc' = "risks"
    /\ UNCHANGED <<miningVars, graph, error, optimizerVars, appVars, engineVars>>

\* analysis.recommendations = await this.generateRecommendations(...)
GenerateRecommendations ==
    /\ pc = "risks"
    /\ analysis' = [analysis EXCEPT !.recommendations = generateRuleRecommendations(graph)]
    /\ pc' = "recommendations"
    /\ UNCHANGED <<miningVars, graph, error, optimizerVars, appVars, engineVars>>

\* analysis.kpis = this.calculateKPIs(processData, analysis)
CalculateKPIs ==
    /\ pc = "recommendations"
    /\ analysis' = [analysis EXCEPT !.kpis = calculateKPIs(analysis)]
    /\ pc' = "kpis"
    /\ UNCHANGED <<miningVars, graph, error, optimizerVars, appVars, engineVars>>

\* analysis.metadata = { ..., version: '3.0.0' }; return analysis. The clock
\* readings analysisTime and timestamp are left out of the metadata
ReturnAnalysis ==
    /\ pc = "kpis"
    /\ analysis' = analysis @@ ("metadata" :> [version |-> "3.0.0"])
    /\ results' = PushResult(results, analysis')
    /\ pc' = "returned"
    /\ UNCHANGED <<miningVars, graph, error, optimizerVars, appVars, runs, config, elements>>

\* a later call of analyze: on the same process, or on the process of an
\* empty diagram
AnalyzeAgain ==
    /\ pc = "returned"
    /\ Len(results) < MaxAnalyzeCalls
    /\ \/ UNCHANGED <<eventLog, graph, elements>>
       \/ /\ eventLog' = <<>>
          /\ graph' = buildProcessGraph(<<>>)
          /\ elements' = extractElements(<<>>)
    /\ analysis' = NoAnalysis
    /\ pc' = "basic"
    /\ UNCHANGED <<traces, dfg, traceIdx, result, error, optimizerVars, appVars, runs, config, results>>

NextAnalyze ==
    \/ AnalyzeBasic
    \/ AnalyzeComplexity
    \/ AnalyzePerformance
    \/ AnalyzeCompliance
    \/ AnalyzeRisks
    \/ GenerateRecommendations
    \/ CalculateKPIs
    \/ ReturnAnalysis
    \/ AnalyzeAgain

SpecAnalyze == InitAnalyze /\ [][NextAnalyze]_vars

\* analyze is one async function: each of its statements runs once the one
\* before it has finished, and its only await is on a promise that settles
SpecAnalyzeFair == SpecAnalyze /\ WF_vars(NextAnalyze)

(* ------------------ two discover calls on one MiningEngine -------------- *)

\* the locals of a discover call that has not run yet; input is the array the
\* caller passed, log the same array as the call may have changed it
NewRun(log) ==
    [pc |-> "discover", input |-> log, log |-> log, traces |-> <<>>,
     dfg |-> EmptyDFG, traceIdx |-> 1, graph |-> EmptyGraph, result |-> NoResult,
     error |-> ""]

\* mutant of SpreadSort: log.sort(...) sorts the array of the caller in place
SortInPlace(log) == [log |-> SortLog(log), sortedLog |-> SortLog(log)]

\* [...log].sort(...): the copy is sorted, the array of the caller is not
\* touched
SpreadSort(log) == [log |-> log, sortedLog |-> SortLog(log)]

\* a log whose events carry the timestamps 1..n in ascending or in
\* descending order
TimedLog(cs, as, descending) ==
    [i \in 1..Len(cs) |->
        [caseId |-> cs[i], activity |-> as[i],
         timestamp |-> IF descending THEN Len(cs) + 1 - i ELSE i]]

InitRuns ==
    /\ pc = "runs"
    /\ \E n \in 0..MaxTraceLen : \E cs \in [1..n -> CaseIds] :
          \E as \in [1..n -> LogActivities] : \E descending \in BOOLEAN :
             \E other \in {TimedLog(cs, as, descending), ScenarioLog, <<>>} :
                runs = <<NewRun(TimedLog(cs, as, descending)), NewRun(other)>>
    /\ config = EngineConfig
    /\ results = <<>>
    /\ elements = <<>>
    /\ eventLog = <<>>
    /\ traces = <<>>
    /\ dfg = EmptyDFG
    /\ traceIdx = 1
    /\ graph = EmptyGraph
    /\ result = NoResult
    /\ error = ""
    /\ analysis = NoAnalysis
    /\ strategy = ""
    /\ candidates = NoCandidates
    /\ recommendations = <<>>
    /\ invoked = <<>>
    /\ IdleApp

RunFrame ==
    UNCHANGED <<pc, miningVars, graph, error, analysis, optimizerVars, appVars,
                config, results, elements>>

\* if (!eventLog || eventLog.length === 0) throw new Error(...)
RunDiscoverEmpty(r) ==
    /\ runs[r].pc = "discover"
    /\ IsEmptyLog(runs[r].log)
    /\ runs' = [runs EXCEPT ![r].pc = "thrown", ![r].error = "Kein Event Log vorhanden"]
    /\ RunFrame

\* const traces = this.extractTraces(eventLog)
RunExtractTraces(r) ==
    /\ runs[r].pc = "discover"
    /\ ~IsEmptyLog(runs[r].log)
    /\ runs' = [runs EXCEPT ![r].log = SpreadSort(@).log,
                            ![r].traces = GroupEvents(<<>>, SpreadSort(runs[r].log).sortedLog),
                            ![r].pc = "buildDFG"]
    /\ RunFrame

\* one iteration of traces.forEach in buildDFG
RunFoldTrace(r) ==
    /\ runs[r].pc = "buildDFG"
    /\ runs[r].traceIdx <= Len(runs[r].traces)
    /\ runs' = [runs EXCEPT ![r].dfg = FoldTraceInto(@, runs[r].traces[runs[r].traceIdx].v),
                            ![r].traceIdx = @ + 1]
    /\ RunFrame

\* const graph = this.createGraphFromDFG(dfg)
RunCreateGraph(r) ==
    /\ runs[r].pc = "buildDFG"
    /\ runs[r].traceIdx > Len(runs[r].traces)
    /\ runs' = [runs EXCEPT ![r].graph = createGraphFromDFG(runs[r].dfg),
                            ![r].pc = "synthesized"]
    /\ RunFrame

\* return { graph, metadata: { caseCount, eventCount, variants, ... } }
RunReturn(r) ==
    /\ runs[r].pc = "synthesized"
    /\ runs' = [runs EXCEPT ![r].result =
                   [graph |-> runs[r].graph,
                    metadata |-> [caseCount |-> Len(runs[r].traces),
                                  eventCount |-> Len(runs[r].log),
                                  variants |-> countVariants(runs[r].traces)]],
                            ![r].pc = "done"]
    /\ RunFrame

\* the two calls
RunIds == {1, 2}

NextRuns ==
    \E r \in RunIds :
        \/ RunDiscoverEmpty(r)
        \/ RunExtractTraces(r)
        \/ RunFoldTrace(r)
        \/ RunCreateGraph(r)
        \/ RunReturn(r)

SpecRuns == InitRuns /\ [][NextRuns]_vars

(* ------------------------------- BPMNApp -------------------------------- *)

MaxAppCalls == 2

StackLimit == 3

MaxHistory == 10

\* new CustomEvent('progress', { detail: { percent, message } })
ProgressEvent(percent) == [type |-> "progress", percent |-> percent]

\* new CustomEvent('error', { detail: { message } }); prefix is the text
\* that the mining handlers put in front of error.message
ErrorEvent(prefix, message) == [type |-> "error", prefix |-> prefix, message |-> message]

\* the events of showProgress(percent) called at stack depth depth, with the
\* 'progress' listener of setupProgressListeners registered: the listener
\* calls showProgress again, until the call stack is exhausted
RECURSIVE Cascade(_, _)
Cascade(percent, depth) ==
    IF depth >= StackLimit THEN <<>>
    ELSE <<ProgressEvent(percent)>> \o Cascade(percent, depth + 1)

\* showProgress(percent, message), as seen by a handler that calls it
showProgress(events, percent) == events \o Cascade(percent, 0)

\* showError(message)
showError(events, prefix, message) == Append(events, ErrorEvent(prefix, message))

\* mutant of saveToHistory: the entry is added at the end and the first one
\* is dropped
saveToHistoryAtEnd(h, entry) ==
    IF Len(Append(h, entry)) > MaxHistory THEN Tail(Append(h, entry)) ELSE Append(h, entry)

\* this.state.history.unshift(entry); if (length > 10) this.state.history.pop()
saveToHistory(h, entry) ==
    LET unshifted == <<entry>> \o h
    IN  IF Len(unshifted) > MaxHistory
        THEN SubSeq(unshifted, 1, Len(unshifted) - 1)
        ELSE unshifted

\* analyze(processData), as the steps of AnalysisEngine.analyze compute it
analyze(p) ==
    LET a == [basic |-> analyzeBasic(p.elements, p.graph),
              complexity |-> analyzeComplexity(p.graph),
              performance |-> analyzePerformance(p.graph),
              compliance |-> analyzeCompliance(p.graph),
              risks |-> analyzeRisks(p.graph),
              recommendations |-> generateRuleRecommendations(p.graph)]
    IN  a @@ ("kpis" :> calculateKPIs(a)) @@ ("metadata" :> [version |-> "3.0.0"])

\* the element map of the uploaded BPMN file: a start event, a user task and
\* a gateway, with flows from the first two into the gateway
FileElements ==
    ElementList(<< [type |-> TypeBpmnStartEvent, name |-> <<>>],
                   [type |-> TypeUserTask, name |-> NameA],
                   [type |-> TypeExclusiveGateway, name |-> <<>>] >>,
                {<<1, 3>>, <<2, 3>>})

\* what parseBPMN returns for the uploaded file
ParsedProcess ==
    [xml |-> "<bpmn:definitions>",
     graph |-> buildProcessGraph(FileElements),
     elements |-> extractElements(FileElements)]

\* what LogCollector.parse returns for the uploaded log
UploadedLog == TimedLog(<<1, 1>>, <<NameA, NameB>>, FALSE)

\* the activities of handleSystemMining, as one environment reports them
SystemActivities ==
    << <<"O", "S", ":", " ", "L", "i", "n", "u", "x">>,
       <<"B", "r", "o", "w", "s", "e", "r", ":", " ", "F", "i", "r", "e", "f", "o", "x">>,
       <<"L", "a", "n", "g", "u", "a", "g", "e", ":", " ", "d", "e">>,
       <<"S", "c", "r", "e", "e", "n", ":", " ", "8", "0", "0", "x", "6", "0", "0">>,
       <<"C", "o", "r", "e", "s", ":", " ", "4">>,
       <<"B", "a", "t", "t", "e", "r", "y", ":", " ", "a", "v", "a", "i", "l", "a", "b", "l", "e">>,
       <<"C", "o", "o", "k", "i", "e", "s", ":", " ", "E", "n", "a", "b", "l", "e", "d">> >>

\* the events of handleSystemMining: one case, timestamps in reading order
SystemEvents ==
    [i \in 1..Len(SystemActivities) |->
        [caseId |-> 0, activity |-> SystemActivities[i], timestamp |-> 0]]

\* the process object that the mining handlers assign to state.currentProcess
MinedProcess(xml, miningResult) ==
    [xml |-> xml, graph |-> miningResult.graph, elements |-> miningResult.graph.nodes]

\* miningEngine.discover(events) for a log that is not empty
discover(log) ==
    [graph |-> createGraphFromDFG(FoldTraces(EmptyDFG, extractTraces(log), 1)),
     metadata |-> [caseCount |-> Len(extractTraces(log)),
                   eventCount |-> Len(log),
                   variants |-> countVariants(extractTraces(log))]]

\* what createVisualization resolves to
Visualization(p) == [layout |-> "dagre", theme |-> "light", graph |-> p.graph]

\* the entry of saveToHistory; process.elements is a plain object, whose
\* length is undefined, and analysis.compliance has no score
HistoryEntry(now, p, a) ==
    [timestamp |-> now, processName |-> "Unbenannter Prozess", isoScore |-> 0,
     data |-> [process |-> p, analysis |-> a]]

\* JSON.stringify of a process: a Map (graph.nodes and graph.edges, and the
\* elements of a mined process) is written as the empty object
JsonOfProcess(p) ==
    [xml |-> p.xml,
     graph |-> [p.graph EXCEPT !.nodes = <<>>, !.edges = <<>>],
     elements |-> IF p.elements = p.graph.nodes THEN <<>> ELSE p.elements]

\* JSON.stringify(this.state.history), the value of localStorage.setItem
Stringify(h) ==
    [i \in 1..Len(h) |-> [h[i] EXCEPT !.data.process = JsonOfProcess(@)]]

\* a call of a handler: its position, its locals and, for reference, the
\* state at its start and the message of the error it caught
NewCall(handler, position, events) ==
    [handler |-> handler, pc |-> position, events |-> events, parsed |-> Null,
     analysis |-> Null, before |-> state, failure |-> ""]

CallIds == 1..MaxAppCalls

\* the text in front of error.message in the catch block of a handler
Prefix(handler) ==
    CASE handler = "loadProcess" -> ""
      [] handler = "handleLogUpload" -> "Mining fehlgeschlagen: "
      [] handler = "handleSystemMining" -> "System-Mining fehlgeschlagen: "

\* the catch block of a handler: showError, and showProgress(0) in the
\* mining handlers
Catch(events, handler, message) ==
    IF handler = "loadProcess" THEN showError(events, "", message)
    ELSE showProgress(showError(events, Prefix(handler), message), 0)

InitApp ==
    /\ pc = "app"
    /\ state = NoState
    /\ history = <<>>
    /\ inflight = <<>>
    /\ dispatched = <<>>
    /\ stack = 0
    /\ listening = TRUE
    /\ clock = 0
    /\ storage = <<>>
    /\ eventLog = <<>>
    /\ traces = <<>>
    /\ dfg = EmptyDFG
    /\ traceIdx = 1
    /\ graph = EmptyGraph
    /\ result = NoResult
    /\ error = ""
    /\ analysis = NoAnalysis
    /\ strategy = ""
    /\ candidates = NoCandidates
    /\ recommendations = <<>>
    /\ invoked = <<>>
    /\ IdleEngines

AppFrame ==
    UNCHANGED <<pc, miningVars, graph, error, analysis, optimizerVars, engineVars,
                stack, listening>>

\* what a handler step that does not call saveToHistory leaves alone
NoSave == UNCHANGED <<history, clock, storage>>

\* loadProcess(file) up to its first await: showProgress(0), readFile
StartLoadProcess ==
    /\ Len(inflight) < MaxAppCalls
    /\ inflight' = Append(inflight, NewCall("loadProcess", "readFile", <<>>))
    /\ dispatched' = showProgress(dispatched, 0)
    /\ UNCHANGED state /\ NoSave
    /\ AppFrame

\* handleLogUpload(file) up to its first await: showProgress(20), parse
StartLogUpload ==
    /\ Len(inflight) < MaxAppCalls
    /\ inflight' = Append(inflight, NewCall("handleLogUpload", "parse", <<>>))
    /\ dispatched' = showProgress(dispatched, 20)
    /\ UNCHANGED state /\ NoSave
    /\ AppFrame

\* handleSystemMining() up to its first await: showProgress(30), the seven
\* events, discover
StartSystemMining ==
    /\ Len(inflight) < MaxAppCalls
    /\ inflight' = Append(inflight, NewCall("handleSystemMining", "discover", SystemEvents))
    /\ dispatched' = showProgress(dispatched, 30)
    /\ UNCHANGED state /\ NoSave
    /\ AppFrame

\* an awaited promise rejects with message, or a step throws it: the catch
\* block of the handler runs and the call ends
Fail(i, message) ==
    /\ inflight' = [inflight EXCEPT ![i].pc = "failed", ![i].failure = message]
    /\ dispatched' = Catch(dispatched, inflight[i].handler, message)
    /\ UNCHANGED state /\ NoSave
    /\ AppFrame

\* loadProcess: readFile settles; showProgress(30), parseBPMN
ReadFile(i) ==
    /\ i <= Len(inflight)
    /\ inflight[i].pc = "readFile"
    /\ \/ /\ inflight' = [inflight EXCEPT ![i].pc = "parseBPMN"]
          /\ dispatched' = showProgress(dispatched, 30)
          /\ UNCHANGED state /\ NoSave
          /\ AppFrame
       \/ Fail(i, "File reading error")

\* loadProcess: parseBPMN settles; showProgress(60), analyze
ParseBPMN(i) ==
    /\ i <= Len(inflight)
    /\ inflight[i].pc = "parseBPMN"
    /\ \/ /\ inflight' = [inflight EXCEPT ![i].pc = "analyze", ![i].parsed = ParsedProcess]
          /\ dispatched' = showProgress(dispatched, 60)
          /\ UNCHANGED state /\ NoSave
          /\ AppFrame
       \/ Fail(i, "Parsing error")

\* loadProcess: analyze resolves; showProgress(90), createVisualization
AnalyzeParsed(i) ==
    /\ i <= Len(inflight)
    /\ inflight[i].handler = "loadProcess"
    /\ inflight[i].pc = "analyze"
    /\ inflight' = [inflight EXCEPT ![i].pc = "visualize",
                                    ![i].analysis = analyze(inflight[i].parsed)]
    /\ dispatched' = showProgress(dispatched, 90)
    /\ UNCHANGED state /\ NoSave
    /\ AppFrame

\* loadProcess: createVisualization settles; the three fields of the state
\* are assigned, updateDashboard, showProgress(100), saveToHistory
VisualizeParsed(i) ==
    /\ i <= Len(inflight)
    /\ inflight[i].handler = "loadProcess"
    /\ inflight[i].pc = "visualize"
    /\ \/ /\ state' = [currentProcess |-> inflight[i].parsed,
                       analysisResults |-> inflight[i].analysis,
                       visualization |-> Visualization(inflight[i].parsed)]
          /\ dispatched' = showProgress(dispatched, 100)
          /\ history' = saveToHistory(history,
                            HistoryEntry(clock, inflight[i].parsed, inflight[i].analysis))
          /\ clock' = clock + 1
          /\ storage' = Stringify(history')
          /\ inflight' = [inflight EXCEPT ![i].pc = "done"]
          /\ AppFrame
       \/ Fail(i, "Visualization failed")

\* handleLogUpload: logCollector.parse settles, with the events of the log or
\* with none; showProgress(50), discover
ParseLog(i) ==
    /\ i <= Len(inflight)
    /\ inflight[i].pc = "parse"
    /\ \/ /\ \E log \in {UploadedLog, <<>>} :
                inflight' = [inflight EXCEPT ![i].pc = "discover", ![i].events = log]
          /\ dispatched' = showProgress(dispatched, 50)
          /\ UNCHANGED state /\ NoSave
          /\ AppFrame
       \/ Fail(i, "Fehler beim Lesen der Datei")

\* the mining handlers: discover settles; showProgress(80) in handleLogUpload,
\* state.currentProcess is assigned, analyze is called
Discover(i) ==
    /\ i <= Len(inflight)
    /\ inflight[i].pc = "discover"
    /\ IF IsEmptyLog(inflight[i].events)
       THEN Fail(i, "Kein Event Log vorhanden")
       ELSE /\ state' = [state EXCEPT !.currentProcess =
                            MinedProcess(IF inflight[i].handler = "handleLogUpload"
                                         THEN "<!-- Discovered Process -->"
                                         ELSE "<!-- System Info Process -->",
                                         discover(inflight[i].events))]
            /\ inflight' = [inflight EXCEPT ![i].pc = "analyze"]
            /\ dispatched' = IF inflight[i].handler = "handleLogUpload"
                             THEN showProgress(dispatched, 80)
                             ELSE dispatched
            /\ NoSave
            /\ AppFrame

\* the mining handlers: analyze(this.state.currentProcess) was called with
\* the process assigned by this call; it resolves, state.analysisResults is
\* assigned, createVisualization(this.state.currentProcess) is called
AnalyzeMined(i) ==
    /\ i <= Len(inflight)
    /\ inflight[i].handler # "loadProcess"
    /\ inflight[i].pc = "analyze"
    /\ state' = [state EXCEPT !.analysisResults =
                    analyze(MinedProcess(IF inflight[i].handler = "handleLogUpload"
                                         THEN "<!-- Discovered Process -->"
                                         ELSE "<!-- System Info Process -->",
                                         discover(inflight[i].events)))]
    /\ inflight' = [inflight EXCEPT ![i].pc = "visualize"]
    /\ UNCHANGED dispatched /\ NoSave
    /\ AppFrame

\* the mining handlers: createVisualization settles; updateDashboard,
\* updateMiningResults, showProgress(100), setTimeout
VisualizeMined(i) ==
    /\ i <= Len(inflight)
    /\ inflight[i].handler # "loadProcess"
    /\ inflight[i].pc = "visualize"
    /\ \/ /\ inflight' = [inflight EXCEPT ![i].pc = "timer"]
          /\ dispatched' = showProgress(dispatched, 100)
          /\ UNCHANGED state /\ NoSave
          /\ AppFrame
       \/ Fail(i, "Visualization failed")

\* setTimeout(() => this.showProgress(0), 1500) fires
ProgressReset(i) ==
    /\ i <= Len(inflight)
    /\ inflight[i].pc = "timer"
    /\ inflight' = [inflight EXCEPT ![i].pc = "done"]
    /\ dispatched' = showProgress(dispatched, 0)
    /\ UNCHANGED state /\ NoSave
    /\ AppFrame

NextApp ==
    \/ StartLoadProcess
    \/ StartLogUpload
    \/ StartSystemMining
    \/ \E i \in CallIds :
          \/ ReadFile(i)
          \/ ParseBPMN(i)
          \/ AnalyzeParsed(i)
          \/ VisualizeParsed(i)
          \/ ParseLog(i)
          \/ Discover(i)
          \/ AnalyzeMined(i)
          \/ VisualizeMined(i)
          \/ ProgressReset(i)

SpecApp == InitApp /\ [][NextApp]_vars

(* ---------------------------- saveToHistory ---------------------------- *)

MaxSaves == 12

\* the process of a diagram without elements
EmptyProcess ==
    [xml |-> "<bpmn:definitions>", graph |-> buildProcessGraph(<<>>),
     elements |-> extractElements(<<>>)]

\* the processes that are saved, each with its analysis
SavedProcesses == {ParsedProcess, EmptyProcess}

InitHistory ==
    /\ pc = "history"
    /\ state = NoState
    /\ history = <<>>
    /\ inflight = <<>>
    /\ dispatched = <<>>
    /\ stack = 0
    /\ listening = TRUE
    /\ clock = 0
    /\ storage = <<>>
    /\ eventLog = <<>>
    /\ traces = <<>>
    /\ dfg = EmptyDFG
    /\ traceIdx = 1
    /\ graph = EmptyGraph
    /\ result = NoResult
    /\ error = ""
    /\ analysis = NoAnalysis
    /\ strategy = ""
    /\ candidates = NoCandidates
    /\ recommendations = <<>>
    /\ invoked = <<>>
    /\ IdleEngines

\* saveToHistory(process, analysis): unshift, pop beyond ten entries,
\* localStorage.setItem
SaveToHistory ==
    /\ clock < MaxSaves
    /\ \E p \in SavedProcesses :
          history' = saveToHistory(history, HistoryEntry(clock, p, analyze(p)))
    /\ clock' = clock + 1
    /\ storage' = Stringify(history')
    /\ UNCHANGED <<state, inflight, dispatched>>
    /\ AppFrame

NextHistory == SaveToHistory

SpecHistory == InitHistory /\ [][NextHistory]_vars

(* ----------------------- showProgress and its listener ------------------ *)

\* the first and the last percent value that loadProcess passes to
\* showProgress
Percents == {0, 100}

RangeError == "RangeError: Maximum call stack size exceeded"

InitProgress ==
    /\ pc = "idle"
    /\ state = NoState
    /\ history = <<>>
    /\ inflight = <<>>
    /\ dispatched = <<>>
    /\ stack = 0
    /\ listening = FALSE
    /\ clock = 0
    /\ storage = <<>>
    /\ eventLog = <<>>
    /\ traces = <<>>
    /\ dfg = EmptyDFG
    /\ traceIdx = 1
    /\ graph = EmptyGraph
    /\ result = NoResult
    /\ error = ""
    /\ analysis = NoAnalysis
    /\ strategy = ""
    /\ candidates = NoCandidates
    /\ recommendations = <<>>
    /\ invoked = <<>>
    /\ IdleEngines

ProgressFrame ==
    UNCHANGED <<miningVars, graph, analysis, optimizerVars, engineVars, state,
                history, inflight, clock, storage>>

\* init: this.setupProgressListeners() registers the 'progress' listener
SetupProgressListeners ==
    /\ pc = "idle"
    /\ ~listening
    /\ listening' = TRUE
    /\ UNCHANGED <<pc, dispatched, stack, error>>
    /\ ProgressFrame

\* a handler calls showProgress(percent, message): the event is created and
\* window.dispatchEvent is entered
CallShowProgress ==
    /\ pc = "idle"
    /\ Len(dispatched) < MaxAppCalls * StackLimit
    /\ \E percent \in Percents : dispatched' = Append(dispatched, ProgressEvent(percent))
    /\ stack' = 1
    /\ pc' = "dispatching"
    /\ error' = ""
    /\ UNCHANGED listening
    /\ ProgressFrame

\* dispatchEvent finds no 'progress' listener and returns, and showProgress
\* returns
ReturnUnheard ==
    /\ pc = "dispatching"
    /\ ~listening
    /\ stack' = 0
    /\ pc' = "idle"
    /\ UNCHANGED <<dispatched, listening, error>>
    /\ ProgressFrame

\* dispatchEvent runs the 'progress' listener, which calls
\* this.showProgress(percent, message) with the detail of the event: the same
\* event is dispatched again, one call deeper
ListenerShowProgress ==
    /\ pc = "dispatching"
    /\ listening
    /\ stack < StackLimit
    /\ dispatched' = Append(dispatched, dispatched[Len(dispatched)])
    /\ stack' = stack + 1
    /\ UNCHANGED <<pc, listening, error>>
    /\ ProgressFrame

\* the call stack is exhausted: the call of the listener throws a RangeError,
\* which dispatchEvent reports instead of passing it on, and the calls return
StackExhausted ==
    /\ pc = "dispatching"
    /\ listening
    /\ stack = StackLimit
    /\ error' = RangeError
    /\ stack' = 0
    /\ pc' = "idle"
    /\ UNCHANGED <<dispatched, listening>>
    /\ ProgressFrame

NextProgress ==
    \/ SetupProgressListeners
    \/ CallShowProgress
    \/ ReturnUnheard
    \/ ListenerShowProgress
    \/ StackExhausted

SpecProgress == InitProgress /\ [][NextProgress]_vars

(* ============================== claims ================================ *)

Values(m) == {m[i].v : i \in 1..Len(m)}

Synthesized == pc \in {"synthesized", "done"}

AllFolded == Synthesized \/ (pc = "buildDFG" /\ traceIdx > Len(traces))

\* the graph invariant of the data model: edges resolve to nodes, and the
\* incoming/outgoing lists of a node are the edges that reference it
GraphInvariant(g) ==
    /\ \A e \in Values(g.edges) : e.source \in MapKeys(g.nodes) /\ e.target \in MapKeys(g.nodes)
    /\ \A n \in Values(g.nodes) :
          /\ Range(n.incoming) = {e.id : e \in {x \in Values(g.edges) : x.target = n.id}}
          /\ Range(n.outgoing) = {e.id : e \in {x \in Values(g.edges) : x.source = n.id}}

\* C1: the graph returned by createGraphFromDFG satisfies the graph invariant
\* (every edge's source and target is a node of graph.nodes; incoming and
\* outgoing of every node are exactly the edges that reference it).
C1_GraphInvariant == Synthesized => GraphInvariant(graph)

CaseIndices(log, c) == {i \in 1..Len(log) : log[i].caseId = c}

\* event i precedes event j: earlier timestamp, or equal timestamps and
\* earlier in the input
Precedes(log, i, j) ==
    \/ log[i].timestamp < log[j].timestamp
    \/ (log[i].timestamp = log[j].timestamp /\ i < j)

\* position of event i within the trace of its case
Rank(log, i) ==
    1 + Cardinality({j \in CaseIndices(log, log[i].caseId) : Precedes(log, j, i)})

\* C2: extractTraces returns exactly one trace per distinct caseId; the trace
\* of case c holds exactly the activities of the events of c, ordered by
\* ascending timestamp, events with equal timestamps in their input order.
C2_TraceGrouping ==
    (pc \in {"buildDFG", "synthesized", "done"}) =>
        /\ \A i, j \in 1..Len(traces) : traces[i].k = traces[j].k => i = j
        /\ MapKeys(traces) = {eventLog[i].caseId : i \in 1..Len(eventLog)}
        /\ \A c \in MapKeys(traces) :
              /\ Len(MapGet(traces, c)) = Cardinality(CaseIndices(eventLog, c))
              /\ \A i \in CaseIndices(eventLog, c) :
                    MapGet(traces, c)[Rank(eventLog, i)] = eventLog[i].activity

\* witness of C2: a case whose events arrive out of timestamp order and a
\* pair of events of one case with equal timestamps and different activities
C2_Witness ==
    /\ pc = "buildDFG"
    /\ \E i, j \in 1..Len(eventLog) :
          /\ i < j /\ eventLog[i].caseId = eventLog[j].caseId
          /\ eventLog[i].timestamp > eventLog[j].timestamp
    /\ \E i, j \in 1..Len(eventLog) :
          /\ i < j /\ eventLog[i].caseId = eventLog[j].caseId
          /\ eventLog[i].timestamp = eventLog[j].timestamp
          /\ eventLog[i].activity # eventLog[j].activity

NonEmptyTraces == {t \in Values(traces) : Len(t) >= 1}

\* number of positions, over all traces, at which b directly follows a
FollowCount(a, b) ==
    Cardinality(UNION { {<<i, j>> : j \in {x \in 1..(Len(traces[i].v) - 1) :
                                             /\ traces[i].v[x] = a
                                             /\ traces[i].v[x + 1] = b}} :
                        i \in 1..Len(traces) })

\* C3: buildDFG returns startNodes = the first activities of the non-empty
\* traces, endNodes = their last activities, nodes = all activities, and for
\* every ordered pair (a, b) relations["a -> b"] is the number of positions at
\* which b directly follows a, the key being absent when that number is 0.
C3_DFGExact ==
    AllFolded =>
        /\ Range(dfg.startNodes) = {t[1] : t \in NonEmptyTraces}
        /\ Range(dfg.endNodes) = {t[Len(t)] : t \in NonEmptyTraces}
        /\ Range(dfg.nodes) = UNION {Range(t) : t \in Values(traces)}
        /\ \A a, b \in Activities \cup LogActivities :
              IF FollowCount(a, b) = 0
              THEN ~MapHas(dfg.relations, RelationKey(a, b))
              ELSE /\ MapHas(dfg.relations, RelationKey(a, b))
                   /\ MapGet(dfg.relations, RelationKey(a, b)) = FollowCount(a, b)

RECURSIVE SumCounts(_)
SumCounts(relations) ==
    IF relations = <<>> THEN 0 ELSE Head(relations).v + SumCounts(Tail(relations))

RECURSIVE SumPairs(_, _)
SumPairs(m, n) ==
    IF n = 0 THEN 0
    ELSE (IF Len(m[n].v) >= 1 THEN Len(m[n].v) - 1 ELSE 0) + SumPairs(m, n - 1)

\* C4: after each trace has been folded into the DFG, the sum of all counts of
\* relations equals the sum of max(length - 1, 0) over the traces folded so far.
C4_CountConservation ==
    (pc = "buildDFG" \/ Synthesized) =>
        SumCounts(dfg.relations) = SumPairs(traces, traceIdx - 1)

\* witness of C4: between two folds, one trace with a transition folded and
\* another one still to come
C4_Witness ==
    /\ pc = "buildDFG"
    /\ traceIdx = 2
    /\ Len(traces) >= 2
    /\ Len(traces[1].v) >= 2
    /\ Len(traces[2].v) >= 2
    /\ SumCounts(dfg.relations) >= 1

TaskNodes(g) == {n \in Values(g.nodes) : n.type = TypeTask}

\* C5: for the log [(1, A, t0), (1, B, t1), (2, A, t2), (2, B, t3)] discover
\* yields traces {1: [A, B], 2: [A, B]}, relations {"A -> B": 2}, startNodes
\* {A}, endNodes {B}, and a graph with exactly 2 task nodes, 1 start node and
\* exactly the edges start -> A and A -> B, the latter with weight 2.
C5_Scenario ==
    (eventLog = ScenarioLog) =>
        /\ (pc \in {"buildDFG", "synthesized", "done"}) =>
              traces = << [k |-> 1, v |-> <<NameA, NameB>>],
                          [k |-> 2, v |-> <<NameA, NameB>>] >>
        /\ AllFolded =>
              /\ dfg.relations = << [k |-> RelationKey(NameA, NameB), v |-> 2] >>
              /\ Range(dfg.startNodes) = {NameA}
              /\ Range(dfg.endNodes) = {NameB}
        /\ Synthesized =>
              /\ Cardinality(TaskNodes(graph)) = 2
              /\ {n.name : n \in TaskNodes(graph)} = {NameA, NameB}
              /\ Len(graph.startEvents) = 1
              /\ Len(graph.edges) = 2
              /\ \E e \in Values(graph.edges) :
                    /\ e.source = graph.startEvents[1].id
                    /\ e.target = TaskId(NameA)
                    /\ DOMAIN e = {"id", "source", "target"}
              /\ \E e \in Values(graph.edges) :
                    /\ DOMAIN e = {"id", "source", "target", "weight"}
                    /\ e.source = TaskId(NameA)
                    /\ e.target = TaskId(NameB)
                    /\ e.weight = 2
        /\ (pc = "done") => result.graph = graph /\ result.metadata.caseCount = 2

\* witness of C5: discover has returned for the scenario log
C5_Witness == eventLog = ScenarioLog /\ pc = "done"

\* two distinct activities of the DFG derive the same node id
IdCollision(d) ==
    \E a, b \in Range(d.nodes) : a # b /\ TaskId(a) = TaskId(b)

\* C6: when two distinct activity names of the DFG sanitize to the same task_
\* id, the synthesizer fails with NodeIdCollisionError and returns no graph.
C6_CollisionRejected ==
    (AllFolded /\ IdCollision(dfg)) =>
        /\ ~Synthesized
        /\ graph = EmptyGraph

StartEdges(g) == {e \in Values(g.edges) : "weight" \notin DOMAIN e}

RelationEdges(g) == {e \in Values(g.edges) : "weight" \in DOMAIN e}

FollowPairs ==
    {p \in (Activities \cup LogActivities) \X (Activities \cup LogActivities) :
        FollowCount(p[1], p[2]) > 0}

\* C9: the edge set of the synthesized graph corresponds exactly to the DFG:
\* one edge per relation a -> b with count c, from the task node of a to the
\* task node of b with weight c; one start node and one start edge per
\* distinct start activity; and no other edges.
C9_EdgesMatchDFG ==
    Synthesized =>
        /\ \A p \in FollowPairs :
              Cardinality({e \in RelationEdges(graph) :
                              /\ e.source = TaskId(p[1])
                              /\ e.target = TaskId(p[2])
                              /\ e.weight = FollowCount(p[1], p[2])}) = 1
        /\ Cardinality(RelationEdges(graph)) = Cardinality(FollowPairs)
        /\ \A a \in Range(dfg.startNodes) :
              Cardinality({e \in StartEdges(graph) :
                              e.source = StartId(a) /\ e.target = TaskId(a)}) = 1
        /\ Cardinality(StartEdges(graph)) = Len(dfg.startNodes)
        /\ Len(graph.startEvents) = Len(dfg.startNodes)
        /\ Len(graph.edges) = Cardinality(FollowPairs) + Len(dfg.startNodes)

ComplexityDone == pc \in {"complexity", "performance"}

Adjacent(g, u, v) ==
    \E e \in Values(g.edges) :
        (e.source = u /\ e.target = v) \/ (e.source = v /\ e.target = u)

\* the nodes reachable from S along edges taken in either direction
RECURSIVE Reach(_, _)
Reach(g, S) ==
    LET T == S \cup {v \in MapKeys(g.nodes) : \E u \in S : Adjacent(g, u, v)}
    IN  IF T = S THEN S ELSE Reach(g, T)

\* number of connected components of the undirected projection
ComponentCount(g) == Cardinality({Reach(g, {v}) : v \in MapKeys(g.nodes)})

\* C7: calculateMcCabeComplexity returns |edges| - |nodes| + 2 * P, with P the
\* number of connected components of the undirected projection of the graph.
C7_McCabeReference ==
    ComplexityDone =>
        analysis.complexity.mcCabe =
            Len(graph.edges) - Len(graph.nodes) + 2 * ComponentCount(graph)

\* C8: a graph with zero nodes yields cyclomatic complexity 0, complexity
\* score 0 and an empty bottleneck list.
C8_EmptyGraph ==
    (pc = "performance" /\ Len(graph.nodes) = 0) =>
        /\ analysis.complexity.mcCabe = 0
        /\ analysis.complexity.score = 0
        /\ analysis.performance.bottlenecks = <<>>

(* ------------------------------ AIOptimizer ---------------------------- *)

Returned01 == pc = "returned"

\* the number a field contributes: its value, 0 when it is absent or null
FieldOr0(rec, key) ==
    IF key \in DOMAIN rec THEN (IF rec[key] = Null THEN 0 ELSE rec[key].num) ELSE 0

\* impact * 0.4 + roi * 0.3 - effort * 0.2 + confidence * 0.1, in thousandths
WeightedSum(rec) ==
    4 * FieldOr0(rec, "impact") + 3 * FieldOr0(rec, "roi")
        - 2 * FieldOr0(rec, "effort") + FieldOr0(rec, "confidence")

Clamp01(x) == IF x < 0 THEN 0 ELSE IF x > 1000 THEN 1000 ELSE x

\* C11: the score of every returned recommendation is
\* clamp01(impact*0.4 + roi*0.3 - effort*0.2 + confidence*0.1), where an
\* absent or null field contributes 0, and therefore lies in [0, 1].
C11_ScoreFormula ==
    Returned01 =>
        \A i \in 1..Len(recommendations) :
            /\ recommendations[i].score = Clamp01(WeightedSum(recommendations[i]))
            /\ recommendations[i].score >= 0
            /\ recommendations[i].score <= 1000

\* a returned list in which one weighted sum exceeds 1 and is clamped to 1,
\* another is negative and is clamped to 0, and a field is null
C11_Witness ==
    /\ Returned01
    /\ \E i, j \in 1..Len(recommendations) :
          /\ WeightedSum(recommendations[i]) > 1000
          /\ recommendations[i].score = 1000
          /\ WeightedSum(recommendations[j]) < 0
          /\ recommendations[j].score = 0
          /\ Has(recommendations[j], "roi")
          /\ recommendations[j]["roi"] = Null
          /\ ~Has(recommendations[j], "impact")

\* the score the claim assigns to a candidate
RefScore(rec) == Clamp01(WeightedSum(rec))

\* position of candidate i of list c in the order "score descending, ties
\* in input order"
ScoreRank(c, i) ==
    1 + Cardinality({j \in 1..Len(c) : RefScore(c[j]) > RefScore(c[i])})
      + Cardinality({j \in 1..(i - 1) : RefScore(c[j]) = RefScore(c[i])})

\* the candidate a returned recommendation was made of
Original(rec, candidate) == [key \in DOMAIN candidate |-> rec[key]]

\* C12: the returned list is a permutation of the candidates, ordered by
\* score descending with equal scores in input order; the candidate
\* {0.9, 0.8, 0.1, 1} scores higher than {0.2, 0.1, 0.9, 0} and comes first.
C12_StableDescending ==
    Returned01 =>
        LET c == candidates.items
        IN  /\ Len(recommendations) = Len(c)
            /\ \A i \in 1..Len(c) :
                  /\ DOMAIN c[i] \subseteq DOMAIN recommendations[ScoreRank(c, i)]
                  /\ Original(recommendations[ScoreRank(c, i)], c[i]) = c[i]
            /\ \A i \in 1..(Len(recommendations) - 1) :
                  recommendations[i].score >= recommendations[i + 1].score
            /\ c = ScenarioCandidates =>
                  /\ Original(recommendations[1], c[2]) = c[2]
                  /\ Original(recommendations[2], c[1]) = c[1]
                  /\ recommendations[1].score > recommendations[2].score

\* the scenario list has been prioritized: the second candidate moved to the
\* front
C12_Witness ==
    /\ Returned01
    /\ candidates.items = ScenarioCandidates
    /\ recommendations[1].score = 680
    /\ recommendations[2].score = 0

SupportedStrategies == {"cost-reduction", "performance", "compliance", "simplicity", "auto"}

\* C13: for a strategy name that is not one of the five supported names,
\* generateRecommendations fails with the unknown-strategy error before any
\* strategy, enhancement or scoring step runs, and returns no list.
C13_UnknownStrategyRejected ==
    (strategy # "" /\ strategy \notin SupportedStrategies) =>
        /\ pc \in {"generateRecommendations", "rejected"}
        /\ pc = "rejected" => error = "Strategy " \o strategy \o " not supported"
        /\ invoked = <<>>
        /\ recommendations = <<>>

StrategyMethods ==
    {"optimizeForCost", "optimizeForPerformance", "optimizeForCompliance",
     "optimizeForSimplicity"}

\* the strategy methods entered so far, in call order
InvokedStrategies == SelectSeq(invoked, LAMBDA m : m \in StrategyMethods)

\* C14: with strategy 'auto' the candidate list that is scored is the
\* concatenation of the outputs of the performance, cost-reduction and
\* compliance strategies, in that order; the simplicity strategy is never
\* invoked.
C14_AutoConcatenation ==
    (strategy = "auto" /\ pc # "generateRecommendations") =>
        /\ pc # "rejected"
        /\ InvokedStrategies =
              <<"optimizeForPerformance", "optimizeForCost", "optimizeForCompliance">>
        /\ "optimizeForSimplicity" \notin Range(invoked)
        /\ pc = "enhance" =>
              candidates.items = optimizeForPerformance(graph).value.items
                                   \o optimizeForCost(graph).value.items
                                   \o optimizeForCompliance(graph).value.items

\* C15: for each of the five supported strategies generateRecommendations
\* completes without error and returns a list (so does optimizeProcess with
\* its default strategy 'auto' when a process is loaded).
C15_StrategiesComplete ==
    strategy \in SupportedStrategies =>
        /\ pc # "rejected"
        /\ pc = "returned" => Len(recommendations) >= 0

\* C16: every returned recommendation has priority 'high' iff score > 0.7,
\* 'medium' iff 0.4 < score <= 0.7 and 'low' iff score <= 0.4, and a
\* timeline equal to its effort (no timeline when it has no effort).
C16_PriorityAndTimeline ==
    Returned01 =>
        \A i \in 1..Len(recommendations) :
            LET rec == recommendations[i]
            IN  /\ rec.priority \in {"high", "medium", "low"}
                /\ rec.priority = "high" <=> rec.score > 700
                /\ rec.priority = "medium" <=> (400 < rec.score /\ rec.score <= 700)
                /\ rec.priority = "low" <=> rec.score <= 400
                /\ Has(rec, "timeline") <=> Has(rec, "effort")
                /\ Has(rec, "effort") => rec["timeline"] = rec["effort"]

\* a returned list with a score of exactly 0.7 ('medium', with an effort and
\* its timeline) and a score of exactly 0.4 ('low', without effort)
C16_Witness ==
    /\ Returned01
    /\ \E i, j \in 1..Len(recommendations) :
          /\ recommendations[i].score = 700
          /\ recommendations[i].priority = "medium"
          /\ Has(recommendations[i], "effort")
          /\ recommendations[i]["timeline"] = Num(300)
          /\ recommendations[j].score = 400
          /\ recommendations[j].priority = "low"
          /\ ~Has(recommendations[j], "timeline")

(* ------------------------------ compliance ----------------------------- *)

ComplianceDone == pc = "compliance"

ScoresOf(cs) == [i \in 1..Len(cs) |-> cs[i].score]

\* C17: analyzeCompliance returns the checks in the order ISO 9001, GDPR,
\* SOX, accessibility; overallScore is the floor of the mean of the four
\* scores ([100, 75, 50, 95] gives 80); failedChecks is the number of checks
\* whose passed is false.
C17_ComplianceAggregate ==
    ComplianceDone =>
        LET c == analysis.compliance
            cs == c.standards
            sum == cs[1].score + cs[2].score + cs[3].score + cs[4].score
        IN  /\ Len(cs) = 4
            /\ cs[1].name = "ISO 9001:2015"
            /\ cs[2].name = "GDPR / DS-GVO"
            /\ cs[3].name = "SOX Compliance"
            /\ cs[4].name = "Barrierefreiheit (WCAG)"
            /\ 4 * c.overallScore <= sum
            /\ sum < 4 * (c.overallScore + 1)
            /\ c.failedChecks = Cardinality({i \in 1..4 : ~cs[i].passed})
            /\ ScoresOf(cs) = <<100, 75, 50, 95>> => c.overallScore = 80

\* the compliance of a process whose checks score [100, 75, 50, 95]: the
\* overall score is 80 and one check (SOX) has failed
C17_Witness ==
    /\ ComplianceDone
    /\ ScoresOf(analysis.compliance.standards) = <<100, 75, 50, 95>>
    /\ analysis.compliance.overallScore = 80
    /\ analysis.compliance.failedChecks = 1

BpmnTaskTypes == {TypeBpmnTask, TypeUserTask}

\* the task nodes of a graph, by the type of the BPMN element
BpmnTasks(g) == {i \in 1..Len(g.nodes) : g.nodes[i].v.type \in BpmnTaskTypes}

\* the four criteria of the ISO check
IsoCriteria(g) ==
    << Len(g.startEvents) >= 1,
       Len(g.endEvents) >= 1,
       Cardinality(BpmnTasks(g)) >= 2,
       \A i \in BpmnTasks(g) : g.nodes[i].v.name # g.nodes[i].v.id >>

IsoOf(a) == a.compliance.standards[1]

\* C18: the ISO check scores exactly 25 for each of four criteria (a start
\* event, an end event, at least two task nodes, every task node named
\* differently from its id), so its score is one of 0, 25, 50, 75, 100, and
\* it passes iff the score is at least 80, that is iff all four hold.
C18_IsoCheck ==
    ComplianceDone =>
        LET met == {k \in 1..4 : IsoCriteria(graph)[k]}
        IN  /\ IsoOf(analysis).score = 25 * Cardinality(met)
            /\ IsoOf(analysis).score \in {0, 25, 50, 75, 100}
            /\ IsoOf(analysis).passed <=> IsoOf(analysis).score >= 80
            /\ IsoOf(analysis).passed <=> met = 1..4
            /\ \A k \in 1..4 : IsoOf(analysis).details[k].passed <=> IsoCriteria(graph)[k]

\* an ISO check with three criteria met (start event, end event, two tasks,
\* one of them unnamed): it scores 75 and fails
C18_Witness ==
    /\ ComplianceDone
    /\ IsoOf(analysis).score = 75
    /\ ~IsoOf(analysis).passed
    /\ IsoCriteria(graph) = <<TRUE, TRUE, TRUE, FALSE>>

\* equality of two characters up to the case of a letter
SameLetter(c, d) ==
    c = d \/ \E i \in 1..26 : {c, d} = {UpperCase[i], LowerCase[i]}

\* the name contains one of the keywords daten, date, user, kunde, person,
\* in any mix of cases
MentionsKeyword(name) ==
    \E k \in 1..Len(SensitiveKeywords) :
        \E p \in 0..(Len(name) - Len(SensitiveKeywords[k])) :
            \A q \in 1..Len(SensitiveKeywords[k]) :
                SameLetter(name[p + q], SensitiveKeywords[k][q])

GdprOf(a) == a.compliance.standards[2]

C20_EmptyLogRejected ==
    (eventLog = NoEventLog \/ eventLog = <<>>) =>
        /\ pc \in {"discover", "thrown"}
        /\ pc = "thrown" => error = "Kein Event Log vorhanden"
        /\ traces = <<>>
        /\ dfg = EmptyDFG
        /\ graph = EmptyGraph
        /\ result = NoResult

\* discover has thrown the empty-log error on an empty log
C20_Witness ==
    /\ eventLog = <<>>
    /\ pc = "thrown"
    /\ error = "Kein Event Log vorhanden"
    /\ result = NoResult

\* whether some event of the log carries a timestamp that does not parse
HasUnparsableTimestamp(log) ==
    \E i \in 1..Len(log) : log[i].timestamp = InvalidDate

\* C21: discover called with a log in which some event's timestamp cannot be
\* parsed fails with a MalformedEventError: the extraction is aborted, and no
\* trace mapping, DFG or graph is built and no result is returned.
C21_MalformedRejected ==
    HasUnparsableTimestamp(eventLog) =>
        /\ pc \in {"discover", "thrown"}
        /\ pc = "thrown" => error = "MalformedEventError"
        /\ traces = <<>>
        /\ dfg = EmptyDFG
        /\ graph = EmptyGraph
        /\ result = NoResult

(* ------------------------- AnalysisEngine.analyze ------------------------ *)

AnalyzeSteps ==
    {"basic", "analyze", "complexity", "performance", "compliance", "risks",
     "recommendations", "kpis"}

IsList(v) == DOMAIN v = 1..Len(v)

\* what analyze has computed when it returns, and that it has not thrown
AnalyzeReturns ==
    /\ pc \in AnalyzeSteps \cup {"returned"}
    /\ error = ""
    /\ pc = "returned" =>
          /\ analysis.basic # NoResult
          /\ analysis.basic.elementCount = Len(elements)
          /\ analysis.complexity # NoResult
          /\ analysis.complexity.score \in Int
          /\ analysis.performance # NoResult
          /\ analysis.compliance # NoResult
          /\ analysis.risks # NoResult
          /\ analysis.kpis # NoResult
          /\ IsList(analysis.recommendations)
          /\ results[Len(results)] = analysis

\* C22: on every well-formed process graph, parsed or mined, with or without
\* gateways, analyze never throws and always runs on to its return; the
\* result it returns holds basic (with the element count of the process),
\* complexity with a numeric score, performance, compliance, risks and kpis,
\* and its recommendations are a list.
C22_AnalyzeCompletes ==
    /\ []AnalyzeReturns
    /\ [](pc \in AnalyzeSteps => <>(pc = "returned"))

\* analyze has returned for a mined graph of two task nodes and no gateway
C22_Witness ==
    /\ pc = "returned"
    /\ eventLog # <<>>
    /\ graph.gateways = <<>>
    /\ analysis.basic.elementCount = 2
    /\ analysis.recommendations = <<>>

\* C23: for every process graph handed to the metrics engine, built by
\* buildProcessGraph from a parsed element set or mined by
\* createGraphFromDFG, calculateMcCabeComplexity returns a number >= 0.
C23_McCabeNonNegative ==
    /\ calculateMcCabeComplexity(graph) >= 0
    /\ analysis.complexity # NoResult => analysis.complexity.mcCabe >= 0

\* C24: analyze is a pure function of its input: no step of a call changes
\* the process it was given (its elements and its graph: nodes, edges,
\* incoming and outgoing lists, startEvents, endEvents, gateways), and no
\* step of a later call, on the same or on another process, changes a result
\* that an earlier call has returned.
C24_AnalyzeIsPure ==
    [][/\ pc # "returned" => (graph' = graph /\ elements' = elements)
       /\ Len(results') >= Len(results)
       /\ \A i \in 1..Len(results) : results'[i] = results[i]]_vars

\* a second call, on another process, has returned a result that differs
\* from the one the first call returned
C24_Witness ==
    /\ pc = "returned"
    /\ Len(results) = 2
    /\ results[1] # results[2]
    /\ results[2] = analysis
    /\ Len(graph.nodes) = 0
    /\ results[1].basic.elementCount > 0

\* the number of distinct activities of a log
DistinctActivities(log) == Cardinality({log[i].activity : i \in 1..Len(log)})

\* C30: for every graph mined from a log with n distinct activities, the n
\* synthesized activity nodes count as task-type nodes: the estimated
\* duration of analyzePerformance is 30 * n, and the criterion 'at least two
\* task-type nodes' of the ISO check holds iff n >= 2.
C30_MinedTasksCounted ==
    (eventLog # <<>> /\ pc \in {"compliance", "risks", "recommendations", "kpis", "returned"}) =>
        /\ Len(graph.nodes) = DistinctActivities(eventLog)
        /\ analysis.performance.estimatedDuration = 30 * DistinctActivities(eventLog)
        /\ IsoOf(analysis).details[3].passed <=> DistinctActivities(eventLog) >= 2

(* ----------------------- concurrent discovery runs ----------------------- *)

\* what discover returns for a log when it runs alone
DiscoverAlone(log) ==
    [graph |-> MinedGraph(log),
     metadata |-> [caseCount |-> Len(extractTraces(log)),
                   eventCount |-> Len(log),
                   variants |-> countVariants(extractTraces(log))]]

\* C25: two discovery runs on one engine are independent under every
\* interleaving of their steps: each run returns the graph, caseCount,
\* eventCount and variants it returns when it runs alone, and no step changes
\* the order of an input log or the configuration of the engine.
C25_RunsIndependent ==
    /\ config = EngineConfig
    /\ \A r \in DOMAIN runs :
          /\ runs[r].log = runs[r].input
          /\ runs[r].pc = "done" => runs[r].result = DiscoverAlone(runs[r].input)
          /\ runs[r].pc = "thrown" => (runs[r].input = <<>> /\ runs[r].result = NoResult)
          /\ runs[r].pc \notin {"done", "thrown"} => runs[r].result = NoResult

\* both runs have returned, on different logs, the first of which was not in
\* timestamp order, after the second run started between steps of the first
C25_Witness ==
    /\ runs[1].pc = "done"
    /\ runs[2].pc = "done"
    /\ runs[1].input # runs[2].input
    /\ runs[1].input # SortLog(runs[1].input)
    /\ runs[1].result # runs[2].result
    /\ runs[1].result.metadata.caseCount = 2

(* -------------------------------- BPMNApp -------------------------------- *)

\* C26: in every reachable state of BPMNApp, under every interleaving of
\* loadProcess, handleLogUpload and handleSystemMining calls that suspend at
\* their awaits, state.analysisResults, when it is not null, is the analysis
\* computed from state.currentProcess.
C26_AnalysisMatchesProcess ==
    state.analysisResults # Null =>
        /\ state.currentProcess # Null
        /\ state.analysisResults = analyze(state.currentProcess)

\* some 'error' event carries the message
ErrorDispatched(message) ==
    \E k \in 1..Len(dispatched) :
        dispatched[k].type = "error" /\ dispatched[k].message = message

\* C27: when a step of a load fails (reading, parsing, mining, analysis or
\* visualization) in loadProcess or handleLogUpload, the call dispatches an
\* 'error' event with the message of the failure and leaves currentProcess,
\* analysisResults and visualization as they were before the call. Stated for
\* a call that runs alone, so that no other call can have changed the state.
C27_FailedLoadLeavesState ==
    (Len(inflight) = 1 /\ inflight[1].pc = "failed"
        /\ inflight[1].handler \in {"loadProcess", "handleLogUpload"}) =>
        /\ ErrorDispatched(inflight[1].failure)
        /\ state = inflight[1].before

(* ------------------------------- history --------------------------------- *)

\* C29: after any sequence of saveToHistory calls, state.history holds at
\* most 10 entries, newest first, and they are exactly the min(n, 10) most
\* recent of the n entries saved.
C29_HistoryBounded ==
    /\ Len(history) <= 10
    /\ Len(history) = Min(clock, 10)
    /\ \A i \in 1..Len(history) : history[i].timestamp = clock - i

\* twelve entries were saved: the history holds the ten most recent ones,
\* the newest first, and the first two saved are gone
C29_Witness ==
    /\ clock = 12
    /\ Len(history) = 10
    /\ history[1].timestamp = 11
    /\ history[10].timestamp = 2
    /\ history[1].data.process # history[2].data.process

(* ------------------------------- progress -------------------------------- *)

\* C28: every showProgress call terminates: it dispatches one 'progress'
\* event, and the handling of that event by the listeners registered in init
\* causes only finitely many further dispatches: the re-dispatching ends by
\* itself, before the call stack is exhausted, and no call ends in an error.
C28_ShowProgressTerminates ==
    /\ stack < StackLimit
    /\ error = ""

====
